---- MODULE Spec2Model ----
(***************************************************************************)
(* Model of the Azul sync daemon: the in-memory tree (TreeManager), the    *)
(* filesystem projector (FileWriter), the watcher (FileWatcher), the index *)
(* writer (SourcemapGenerator), the orchestrator (SyncDaemon) and the two   *)
(* transports (IPCServer, HttpPollingServer).                              *)
(*                                                                         *)
(* JavaScript Maps keep insertion order and the code iterates them, so a   *)
(* Map is a sequence of records here.  Object references (parent) are the  *)
(* guid of the object referred to.  A file path is the sequence of its     *)
(* segments below the base directory.                                      *)
(***************************************************************************)
EXTENDS Integers, Sequences, FiniteSets, TLC

VARIABLES
    nodes,          \* TreeManager.nodes: sequence of TreeNode records
    fileMappings,   \* FileWriter.fileMappings: sequence of FileMapping records
    files,          \* the disk: file path -> contents
    dirs,           \* the disk: set of directory paths below the base directory
    sourcemap,      \* the index file: [exists, children]
    watcher,        \* FileWatcher.watcher # null
    leaked,         \* chokidar watchers still active that FileWatcher no longer references
    stopPending,    \* number of FileWatcher.stop() calls suspended at their await
    debounceTimers, \* FileWatcher.debounceTimers: path -> origins of the writes it covers
    suppressed,     \* paths armed by suppressNextChange
    dirty,          \* files whose contents are a user edit not yet sent to the editor
    steps,          \* number of editor messages, user edits and transport requests so far
    ipcClient,      \* IPCServer.client: the index of a socket, 0 for null
    sockets,        \* the WebSocket connections accepted so far: [state, received]
    clients,        \* HttpPollingServer.clients: sequence of PollingClient records
    now,            \* Date.now(), in milliseconds since the daemon started
    issued,         \* number of client identifiers generated so far
    enqueued,       \* client id -> the messages pushed to its queue (history)
    polled,         \* client id -> the messages its polls returned (history)
    named,          \* the script file name last classified and what was made of it
    indexFile,      \* the index file as another process finds it: [bytes, target, previous, writing]
    observed,       \* what a reader of the index file read last
    deleteOrphansOnConnect, \* config.deleteOrphansOnConnect
    push,           \* the push command: its options, its wait for the push config, what it sent
    debounce,       \* the FileWatcher under a clock: [now, timers, lastEvent, burst, disk]
    shutdown,       \* SyncDaemon.stop(): [phase, closing]
    last            \* what the last step did (history)

daemonVars == <<nodes, fileMappings, files, dirs, sourcemap, watcher, leaked,
                stopPending, debounceTimers, suppressed, dirty>>

transportVars == <<ipcClient, sockets, clients, now, issued, enqueued, polled>>

\* what the daemon's own steps leave alone
auxVars == <<named, indexFile, observed, deleteOrphansOnConnect, push, debounce,
            shutdown>>

vars == <<nodes, fileMappings, files, dirs, sourcemap, watcher, leaked,
          stopPending, debounceTimers, suppressed, dirty, steps,
          ipcClient, sockets, clients, now, issued, enqueued, polled, named,
          indexFile, observed, deleteOrphansOnConnect, push, debounce,
          shutdown, last>>

-----------------------------------------------------------------------------
(* Bounds *)

MaxSteps == 4

\* connections, polls and outbound messages in a run of the transports
MaxRequests == 4

\* WebSocket connections and polling clients accepted in a run
MaxConnections == 2

\* messages pushed to one polling client's queue in a run
MaxQueue == 2

\* the clock advances in steps of TickMs up to MaxTime
TickMs == 30000
MaxTime == 90000

-----------------------------------------------------------------------------
(* Values *)

NoSource == "<undefined>"
NoParent == "<none>"
NoGuid == "<none>"
RootGuid == "root"

ScriptClasses == {"Script", "LocalScript", "ModuleScript"}

\* !node.source : undefined and the empty string are both falsy
Falsy(source) == source = NoSource \/ source = ""

-----------------------------------------------------------------------------
(* Sequence helpers *)

Range(s) == {s[i] : i \in 1..Len(s)}

Front(s) == SubSeq(s, 1, Len(s) - 1)

Last(s) == s[Len(s)]

Without(s, i) == SubSeq(s, 1, i - 1) \o SubSeq(s, i + 1, Len(s))

IsPrefix(p, s) == Len(p) <= Len(s) /\ SubSeq(s, 1, Len(p)) = p

\* Array.findIndex: the first of the indices whose elements satisfy the test,
\* 0 for -1
FindIndex(matching) ==
    IF matching = {} THEN 0
    ELSE CHOOSE i \in matching : \A j \in matching : i <= j

\* Map.get / Map.has / Map.set / Map.delete on a sequence of records keyed by guid
MapHas(m, guid) == \E i \in 1..Len(m) : m[i].guid = guid

MapIdx(m, guid) == FindIndex({i \in 1..Len(m) : m[i].guid = guid})

MapGet(m, guid) == m[MapIdx(m, guid)]

MapSet(m, rec) ==
    IF MapHas(m, rec.guid)
    THEN [m EXCEPT ![MapIdx(m, rec.guid)] = rec]
    ELSE Append(m, rec)

MapDelete(m, guid) ==
    IF MapHas(m, guid) THEN Without(m, MapIdx(m, guid)) ELSE m

MapKeys(m) == {m[i].guid : i \in 1..Len(m)}

\* children: Map<string, TreeNode> as the sequence of the children's guids
KeysSet(ks, guid) == IF guid \in Range(ks) THEN ks ELSE Append(ks, guid)

KeysDelete(ks, guid) == SelectSeq(ks, LAMBDA g : g # guid)

-----------------------------------------------------------------------------
(* TreeManager *)

TreeNode(instance) ==
    [guid |-> instance.guid, className |-> instance.className,
     name |-> instance.name, path |-> instance.path, source |-> instance.source,
     children |-> <<>>, parent |-> NoParent]

RootNode ==
    [guid |-> RootGuid, className |-> "DataModel", name |-> "game", path |-> <<>>,
     source |-> NoSource, children |-> <<>>, parent |-> NoParent]

isScriptClass(className) == className \in ScriptClasses

\* the first node, in Map order, whose path equals path; NoGuid for undefined
findNodeByPath(ns, path) ==
    LET i == FindIndex({k \in 1..Len(ns) : ns[k].path = path})
    IN  IF i = 0 THEN NoGuid ELSE ns[i].guid

\* node.parent.children.delete(guid), when node.parent is set
DetachFromParent(ns, guid) ==
    LET parent == MapGet(ns, guid).parent
    IN  IF parent # NoParent /\ MapHas(ns, parent)
        THEN [ns EXCEPT ![MapIdx(ns, parent)].children = KeysDelete(@, guid)]
        ELSE ns

\* parent.children.set(guid, node); node.parent = parent
Attach(ns, parent, guid) ==
    LET a == [ns EXCEPT ![MapIdx(ns, parent)].children = KeysSet(@, guid)]
    IN  [a EXCEPT ![MapIdx(a, guid)].parent = parent]

\* the lazily created synthetic root
EnsureRoot(ns) == IF MapHas(ns, RootGuid) THEN ns ELSE Append(ns, RootNode)

\* where reparentNode and the second pass of applyFullSnapshot attach a node
AttachByPath(ns, guid, path) ==
    IF Len(path) = 1
    THEN Attach(EnsureRoot(ns), RootGuid, guid)
    ELSE LET parent == findNodeByPath(ns, Front(path))
         IN  IF parent # NoGuid THEN Attach(ns, parent, guid) ELSE ns

reparentNode(ns, guid, path) == AttachByPath(DetachFromParent(ns, guid), guid, path)

RECURSIVE FirstPass(_, _)
FirstPass(ns, instances) ==
    IF instances = <<>> THEN ns
    ELSE FirstPass(MapSet(ns, TreeNode(Head(instances))), Tail(instances))

RECURSIVE SecondPass(_, _)
SecondPass(ns, instances) ==
    IF instances = <<>> THEN ns
    ELSE LET instance == Head(instances)
         IN  SecondPass(AttachByPath(ns, instance.guid, instance.path), Tail(instances))

applyFullSnapshot(instances) == SecondPass(FirstPass(<<>>, instances), instances)

updateInstance(ns, instance) ==
    IF MapHas(ns, instance.guid)
    THEN LET existing == MapGet(ns, instance.guid)
             pathChanged == existing.path # instance.path
             nameChanged == existing.name # instance.name
             updated == [ns EXCEPT ![MapIdx(ns, instance.guid)] =
                            [@ EXCEPT !.className = instance.className,
                                      !.name = instance.name,
                                      !.path = instance.path,
                                      !.source = instance.source]]
         IN  IF pathChanged \/ nameChanged
             THEN reparentNode(updated, instance.guid, instance.path)
             ELSE updated
    ELSE reparentNode(Append(ns, TreeNode(instance)), instance.guid, instance.path)

\* what updateInstance reports to the orchestrator
UpdateResult(ns, instance) ==
    IF MapHas(ns, instance.guid)
    THEN LET existing == MapGet(ns, instance.guid)
         IN  [isNew |-> FALSE, hasPrev |-> TRUE, prevPath |-> existing.path,
              pathChanged |-> existing.path # instance.path,
              nameChanged |-> existing.name # instance.name]
    ELSE [isNew |-> TRUE, hasPrev |-> FALSE, prevPath |-> <<>>,
          pathChanged |-> FALSE, nameChanged |-> FALSE]

updateScriptSource(ns, guid, source) ==
    IF MapHas(ns, guid)
    THEN [ns EXCEPT ![MapIdx(ns, guid)].source = source]
    ELSE ns

RECURSIVE deleteInstance(_, _)
RECURSIVE DeleteChildren(_, _)
deleteInstance(ns, guid) ==
    IF ~MapHas(ns, guid) THEN ns
    ELSE LET node == MapGet(ns, guid)
         IN  DeleteChildren(MapDelete(DetachFromParent(ns, guid), guid), node.children)

\* what deleteInstance returns: the node of guid, NoGuid for null
deleteInstanceResult(ns, guid) ==
    IF ~MapHas(ns, guid) THEN NoGuid ELSE MapGet(ns, guid).guid

\* leaves the children in the store
DeleteChildrenNone(ns, kids) == ns

DeleteChildren(ns, kids) ==
    IF kids = <<>> THEN ns
    ELSE DeleteChildren(deleteInstance(ns, Head(kids)), Tail(kids))

getScriptNodes(ns) == SelectSeq(ns, LAMBDA n : isScriptClass(n.className))

\* script-class descendants in pre-order, following the child maps
RECURSIVE getDescendantScripts(_, _, _)
RECURSIVE DescendantScriptsOf(_, _, _)
getDescendantScripts(ns, guid, fuel) ==
    IF fuel = 0 \/ ~MapHas(ns, guid) THEN <<>>
    ELSE DescendantScriptsOf(ns, MapGet(ns, guid).children, fuel)

DescendantScriptsOf(ns, kids, fuel) ==
    IF kids = <<>> THEN <<>>
    ELSE LET k == Head(kids)
             self == IF MapHas(ns, k) /\ isScriptClass(MapGet(ns, k).className)
                     THEN <<k>> ELSE <<>>
         IN  self \o getDescendantScripts(ns, k, fuel - 1)
                  \o DescendantScriptsOf(ns, Tail(kids), fuel)

-----------------------------------------------------------------------------
(* FileWriter *)

\* config.scriptExtension
scriptExtension == ".luau"

\* name.replace(/[<>:"|?*]/g, "_") on the names of the model
sanitizeName(name) ==
    CASE name = "R?" -> "R_"
      [] name = "R*" -> "R_"
      [] name = "P:" -> "P_"
      [] OTHER -> name

isScriptNode(node) == node.className \in ScriptClasses

getScriptFileName(node) ==
    IF node.path # <<>> /\ node.name = Last(node.path)
    THEN "init" \o scriptExtension
    ELSE sanitizeName(node.name) \o scriptExtension

getFilePath(node) ==
    LET parts == [i \in 1..Len(node.path) |-> sanitizeName(node.path[i])]
    IN  IF isScriptNode(node) THEN Append(parts, getScriptFileName(node)) ELSE parts

\* path.dirname
Dirname(filePath) == Front(filePath)

\* fs.mkdirSync(dirPath, {recursive: true}) unless the directory exists
ensureDirectory(ds, dirPath) ==
    ds \cup {SubSeq(dirPath, 1, k) : k \in 1..Len(dirPath)}

\* The FileWriter and the disk it writes: [maps, files, dirs]
FileMapping(node) ==
    [guid |-> node.guid, filePath |-> getFilePath(node), className |-> node.className]

WritesFile(node) == isScriptNode(node) /\ ~Falsy(node.source)

writeScript(fw, node) ==
    IF ~WritesFile(node) THEN fw
    ELSE LET filePath == getFilePath(node)
         IN  [maps  |-> MapSet(fw.maps, FileMapping(node)),
              files |-> [p \in DOMAIN fw.files \cup {filePath} |->
                            IF p = filePath THEN node.source ELSE fw.files[p]],
              dirs  |-> ensureDirectory(fw.dirs, Dirname(filePath))]

\* writeScript when the filesystem refuses an operation, [fw, threw]:
\* ensureDirectory is called outside the try, so what mkdirSync throws leaves
\* writeScript; what writeFileSync throws is caught and logged, and the
\* mapping is not set.  Nothing fails when nothing is written, or when the
\* directory exists and mkdirSync is not called
writeScriptFailing(fw, node, fault) ==
    IF ~WritesFile(node) THEN [fw |-> fw, threw |-> FALSE, failed |-> FALSE]
    ELSE LET dirPath == Dirname(getFilePath(node))
         IN  IF fault = "mkdir"
             THEN IF dirPath \in fw.dirs
                  THEN [fw |-> writeScript(fw, node), threw |-> FALSE, failed |-> FALSE]
                  ELSE [fw |-> fw, threw |-> TRUE, failed |-> TRUE]
             ELSE [fw |-> [fw EXCEPT !.dirs = ensureDirectory(@, dirPath)],
                   threw |-> FALSE, failed |-> TRUE]

RECURSIVE WriteAll(_, _)
WriteAll(fw, scriptNodes) ==
    IF scriptNodes = <<>> THEN fw
    ELSE WriteAll(writeScript(fw, Head(scriptNodes)), Tail(scriptNodes))

\* fileMappings.clear(), then writeScript for every script node in Map order
writeTree(fw, ns) ==
    WriteAll([fw EXCEPT !.maps = <<>>], SelectSeq(ns, isScriptNode))

Unlink(fs, filePath) == [p \in DOMAIN fs \ {filePath} |-> fs[p]]

deleteScript(fw, guid) ==
    IF ~MapHas(fw.maps, guid) THEN fw
    ELSE [fw EXCEPT !.files = Unlink(@, MapGet(fw.maps, guid).filePath),
                    !.maps = MapDelete(@, guid)]

\* deleteScript when unlinkSync throws: the error is caught and logged before
\* the mapping is deleted
deleteScriptFailing(fw, guid) ==
    IF ~MapHas(fw.maps, guid) THEN fw
    ELSE IF MapGet(fw.maps, guid).filePath \notin DOMAIN fw.files
    THEN deleteScript(fw, guid)
    ELSE fw

\* the direct path-delete the orchestrator falls back to
deleteFilePath(fw, filePath) == [fw EXCEPT !.files = Unlink(@, filePath)]

\* compares file names instead of whole paths
getGuidByFileName(maps, filePath) ==
    LET i == FindIndex({k \in 1..Len(maps) : Last(maps[k].filePath) = Last(filePath)})
    IN  IF i = 0 THEN NoGuid ELSE maps[i].guid

getGuidByPath(maps, filePath) ==
    LET i == FindIndex({k \in 1..Len(maps) : maps[k].filePath = filePath})
    IN  IF i = 0 THEN NoGuid ELSE maps[i].guid

\* the directories cleanupEmptyDirsRecursive(dirPath) removes; the base
\* directory is the empty path
RECURSIVE RemovedDirs(_, _, _)
RemovedDirs(ds, fs, dirPath) ==
    IF (dirPath # <<>> /\ dirPath \notin ds) \/ dirPath = <<>> THEN {}
    ELSE LET subs == {d \in ds : Len(d) = Len(dirPath) + 1 /\ IsPrefix(dirPath, d)}
             below == UNION {RemovedDirs(ds, fs, d) : d \in subs}
             left == {d \in subs : d \notin below}
                     \cup {f \in DOMAIN fs : Dirname(f) = dirPath}
         IN  IF left = {} THEN below \cup {dirPath} ELSE below

cleanupEmptyDirsRecursive(ds, fs, dirPath) == ds \ RemovedDirs(ds, fs, dirPath)

cleanupEmptyDirectories(fw) ==
    [fw EXCEPT !.dirs = cleanupEmptyDirsRecursive(fw.dirs, fw.files, <<>>)]

-----------------------------------------------------------------------------
(* SourcemapGenerator *)

\* A SourcemapNode: filePaths is <<>> when the property is absent, children
\* is meaningful only when hasChildren (the property is present)
SourcemapNode(name, className, filePaths, kids) ==
    [name |-> name, className |-> className, filePaths |-> filePaths,
     hasChildren |-> kids # <<>>, children |-> kids]

\* path.relative(cwd, mapping.filePath) of the node's mapping, if it has one
FilePathsOf(maps, guid) ==
    IF MapHas(maps, guid) THEN <<MapGet(maps, guid).filePath>> ELSE <<>>

\* the guids reachable from guid along child maps, in at most fuel steps
RECURSIVE ReachableFrom(_, _, _)
ReachableFrom(ns, frontier, fuel) ==
    LET next == frontier \cup
                UNION {Range(MapGet(ns, g).children) : g \in {x \in frontier : MapHas(ns, x)}}
    IN  IF fuel = 0 \/ next = frontier THEN frontier ELSE ReachableFrom(ns, next, fuel - 1)

DescendantsOf(ns, guid) ==
    IF MapHas(ns, guid)
    THEN ReachableFrom(ns, Range(MapGet(ns, guid).children), Len(ns))
    ELSE {}

\* buildNodeFromTree never returns when the child maps below guid hold a cycle
Overflows(ns, guid) ==
    \E g \in DescendantsOf(ns, guid) \cup {guid} : g \in DescendantsOf(ns, g)

RECURSIVE buildNodeFromTree(_, _, _)
RECURSIVE BuildChildrenFromTree(_, _, _)
buildNodeFromTree(ns, maps, guid) ==
    LET node == MapGet(ns, guid)
    IN  SourcemapNode(node.name, node.className, FilePathsOf(maps, guid),
                      BuildChildrenFromTree(ns, maps, node.children))

BuildChildrenFromTree(ns, maps, kids) ==
    IF kids = <<>> THEN <<>>
    ELSE <<buildNodeFromTree(ns, maps, Head(kids))>>
         \o BuildChildrenFromTree(ns, maps, Tail(kids))

\* childrenByParent.get(key): the nodes, in Map order, whose parent path is path
ChildrenByParent(ns, path) ==
    SelectSeq(ns, LAMBDA n : n.path # <<>> /\ Front(n.path) = path)

\* buildNodeFromIndex returns [built, visited]: built is <<>> for null
RECURSIVE buildNodeFromIndex(_, _, _, _)
RECURSIVE BuildChildrenFromIndex(_, _, _, _)
buildNodeFromIndex(ns, maps, node, visited) ==
    IF node.path \in visited THEN [built |-> <<>>, visited |-> visited]
    ELSE LET kids == BuildChildrenFromIndex(ns, maps, ChildrenByParent(ns, node.path),
                                            visited \cup {node.path})
         IN  [built |-> <<SourcemapNode(node.name, node.className,
                                        FilePathsOf(maps, node.guid), kids.built)>>,
              visited |-> kids.visited]

BuildChildrenFromIndex(ns, maps, childNodes, visited) ==
    IF childNodes = <<>> THEN [built |-> <<>>, visited |-> visited]
    ELSE LET first == buildNodeFromIndex(ns, maps, Head(childNodes), visited)
             rest == BuildChildrenFromIndex(ns, maps, Tail(childNodes), first.visited)
         IN  [built |-> first.built \o rest.built, visited |-> rest.visited]

RECURSIVE BuildServices(_, _, _)
BuildServices(ns, maps, serviceRoots) ==
    IF serviceRoots = <<>> THEN <<>>
    ELSE buildNodeFromIndex(ns, maps, Head(serviceRoots), {}).built
         \o BuildServices(ns, maps, Tail(serviceRoots))

\* generate: the children of the {name: "Game", className: "DataModel"} root
generate(ns, maps) ==
    BuildServices(ns, maps, SelectSeq(ns, LAMBDA n : Len(n.path) = 1))

generateAndWrite(ns, maps) == [exists |-> TRUE, children |-> generate(ns, maps)]

\* JSON.stringify(sourcemap, null, 2) as the sequence of the document's tokens
RECURSIVE StringifyNodes(_)
RECURSIVE StringifyPaths(_)
StringifyPaths(filePaths) ==
    IF filePaths = <<>> THEN <<>>
    ELSE <<"[">> \o Head(filePaths) \o <<"]">> \o StringifyPaths(Tail(filePaths))

StringifyNodes(kids) ==
    IF kids = <<>> THEN <<>>
    ELSE LET k == Head(kids)
         IN  <<"{", k.name, k.className>> \o StringifyPaths(k.filePaths)
                \o StringifyNodes(k.children) \o <<"}">>
                \o StringifyNodes(Tail(kids))

Stringify(sm) == <<"{", "Game", "DataModel">> \o StringifyNodes(sm.children) \o <<"}">>

\* what a reader finds where no file is
NoFile == <<"ENOENT">>

\* SourcemapGenerator.write: fs.writeFileSync opens the file with the flag
\* "w", which creates or truncates it, and then writes the document
WriteOpens(file, sm) ==
    [bytes |-> <<>>, target |-> Stringify(sm), previous |-> file.bytes, writing |-> TRUE]

\* a write(2) of the open file has returned
WriteAdvances(file, k) ==
    [file EXCEPT !.bytes = SubSeq(file.target, 1, k), !.writing = k < Len(file.target)]

readOrCreateRoot(sm) == IF sm.exists THEN sm.children ELSE <<>>

\* className of the tree node at path, "Folder" when there is none
AncestorClass(ns, path) ==
    LET g == findNodeByPath(ns, path)
    IN  IF g = NoGuid THEN "Folder" ELSE MapGet(ns, g).className

RECURSIVE insertNodeAtPath(_, _, _, _, _, _)
insertNodeAtPath(currentChildren, newNode, pathSegments, i, ns, isNewEntry) ==
    IF pathSegments = <<>> THEN currentChildren
    ELSE
    LET segment == pathSegments[i]
        byName == FindIndex({k \in 1..Len(currentChildren) : currentChildren[k].name = segment})
    IN  IF i = Len(pathSegments)
        THEN LET same == FindIndex({k \in 1..Len(currentChildren) :
                                     /\ currentChildren[k].name = segment
                                     /\ currentChildren[k].className = newNode.className})
             IN  IF isNewEntry \/ same = 0
                 THEN Append(currentChildren, newNode)
                 ELSE [currentChildren EXCEPT ![same] = newNode]
        ELSE LET withHolder ==
                     IF byName = 0
                     THEN Append(currentChildren,
                                 [name |-> segment,
                                  className |-> AncestorClass(ns, SubSeq(pathSegments, 1, i)),
                                  filePaths |-> <<>>, hasChildren |-> TRUE,
                                  children |-> <<>>])
                     ELSE currentChildren
                 idx == IF byName = 0 THEN Len(withHolder) ELSE byName
                 holder == withHolder[idx]
             IN  [withHolder EXCEPT ![idx] =
                    [holder EXCEPT
                       !.hasChildren = TRUE,
                       !.children = insertNodeAtPath(IF holder.hasChildren
                                                     THEN holder.children ELSE <<>>,
                                                     newNode, pathSegments, i + 1, ns,
                                                     isNewEntry)]]

\* pruneRecursive(nodes, idx) returns [removed, nodes]; className is NoGuid
\* when targetClassName is not supplied
RECURSIVE pruneRecursive(_, _, _, _)
pruneRecursive(entries, pathSegments, idx, targetClassName) ==
    LET name == pathSegments[idx]
        terminal == idx = Len(pathSegments)
        exact == FindIndex({k \in 1..Len(entries) :
                               /\ entries[k].name = name
                               /\ (terminal /\ targetClassName # NoGuid
                                      => entries[k].className = targetClassName)})
        nodeIndex == IF exact = 0 /\ terminal
                     THEN FindIndex({k \in 1..Len(entries) : entries[k].name = name})
                     ELSE exact
    IN  IF nodeIndex = 0 THEN [removed |-> FALSE, nodes |-> entries]
        ELSE IF terminal THEN [removed |-> TRUE, nodes |-> Without(entries, nodeIndex)]
        ELSE LET node == entries[nodeIndex]
                 sub == IF node.hasChildren
                        THEN pruneRecursive(node.children, pathSegments, idx + 1,
                                            targetClassName)
                        ELSE [removed |-> FALSE, nodes |-> <<>>]
             IN  IF ~sub.removed THEN [removed |-> FALSE, nodes |-> entries]
                 ELSE IF sub.nodes = <<>> /\ node.filePaths = <<>>
                      THEN [removed |-> TRUE, nodes |-> Without(entries, nodeIndex)]
                      ELSE [removed |-> TRUE,
                            nodes |-> [entries EXCEPT ![nodeIndex].children = sub.nodes]]

removePath(rootChildren, pathSegments, targetClassName) ==
    IF pathSegments = <<>> THEN [removed |-> FALSE, nodes |-> rootChildren]
    ELSE pruneRecursive(rootChildren, pathSegments, 1, targetClassName)

\* upsertSubtree: hasOld is FALSE when oldPath is undefined
upsertSubtree(sm, ns, maps, guid, hasOld, oldPath, isNew) ==
    LET node == MapGet(ns, guid)
        root == readOrCreateRoot(sm)
        pruned == IF hasOld /\ oldPath # node.path
                  THEN removePath(root, oldPath, node.className).nodes
                  ELSE root
    IN  IF Overflows(ns, guid)
        THEN generateAndWrite(ns, maps)
        ELSE [exists |-> TRUE,
              children |-> insertNodeAtPath(pruned, buildNodeFromTree(ns, maps, guid),
                                            node.path, 1, ns, isNew)]

\* prunePath returns [pruned, sm]
prunePath(sm, pathSegments, ns, maps, targetClassName) ==
    IF ~sm.exists THEN [pruned |-> TRUE, sm |-> generateAndWrite(ns, maps)]
    ELSE LET r == removePath(sm.children, pathSegments, targetClassName)
         IN  [pruned |-> r.removed,
              sm |-> IF r.removed THEN [sm EXCEPT !.children = r.nodes] ELSE sm]

-----------------------------------------------------------------------------
(* FileWatcher *)

\* filePath.endsWith(".lua") || filePath.endsWith(".luau"), on the file names
\* of the model
isScriptFile(filePath) ==
    filePath # <<>> /\
    Last(filePath) \in {stem \o ext : stem \in {"init", "S", "P", "P_", "Q", "R_"},
                                      ext \in {".lua", ".luau"}}

\* FileWatcher.handleFileChange: the pending timer of the path is cleared and
\* a new one is set.  The timer remembers whose writes it stands for.
handleFileChange(timers, filePath, origin) ==
    [p \in DOMAIN timers \cup {filePath} |->
        IF p = filePath
        THEN (IF p \in DOMAIN timers THEN timers[p] ELSE {}) \cup {origin}
        ELSE timers[p]]

\* chokidar emits "change" for a write to a file that existed before, to every
\* watcher that is still active; "add" and "unlink" have no listener
RECURSIVE EmitChanges(_, _, _)
EmitChanges(timers, written, origin) ==
    IF written = <<>> THEN timers
    ELSE EmitChanges(handleFileChange(timers, Head(written), origin), Tail(written), origin)

ChangedPaths(fsBefore, written, emitting) ==
    IF emitting THEN SelectSeq(written, LAMBDA p : p \in DOMAIN fsBefore) ELSE <<>>

ChangesOf(timers, fsBefore, written, origin, emitting) ==
    EmitChanges(timers, ChangedPaths(fsBefore, written, emitting), origin)

\* suppressNextChange(absPath): one token per path
suppressNextChange(tokens, filePath) == tokens \cup {filePath}

\* whether the event of filePath is consumed by a token
ConsumesToken(tokens, filePath) == filePath \in tokens

\* hands nothing to the change handler
processFileChangeSilent(fs, filePath) == <<>>

\* processFileChange hands [filePath, source] to the change handler, or nothing
processFileChange(fs, filePath) ==
    IF ~isScriptFile(filePath) THEN <<>>
    ELSE IF filePath \notin DOMAIN fs THEN <<>>
    ELSE <<[filePath |-> filePath, source |-> fs[filePath]]>>

\* config.fileWatchDebounce, in ms
fileWatchDebounce == 100

\* a change handler that leaves a pending timer of the path as it is
KeepPendingTimer(timers, filePath, time) ==
    IF filePath \in DOMAIN timers THEN timers
    ELSE [p \in DOMAIN timers \cup {filePath} |->
            IF p = filePath THEN time + fileWatchDebounce ELSE timers[p]]

\* FileWatcher.handleFileChange under a clock: timers maps a path to the time
\* its timer is due; clearTimeout of the path's timer, then
\* setTimeout(..., config.fileWatchDebounce)
handleFileChangeAt(timers, filePath, time) ==
    [p \in DOMAIN timers \cup {filePath} |->
        IF p = filePath THEN time + fileWatchDebounce ELSE timers[p]]

\* this.debounceTimers.delete(filePath)
deleteTimer(timers, filePath) == [p \in DOMAIN timers \ {filePath} |-> timers[p]]

-----------------------------------------------------------------------------
(* SyncDaemon *)

Fw == [maps |-> fileMappings, files |-> files, dirs |-> dirs]

\* the file paths writeScript writes for these nodes, in order
RECURSIVE WrittenPaths(_, _)
WrittenPaths(ns, guids) ==
    IF guids = <<>> THEN <<>>
    ELSE LET node == MapGet(ns, Head(guids))
         IN  (IF WritesFile(node) THEN <<getFilePath(node)>> ELSE <<>>)
             \o WrittenPaths(ns, Tail(guids))

Guids(recs) == [i \in 1..Len(recs) |-> recs[i].guid]

RECURSIVE NodesOf(_, _)
NodesOf(ns, guids) ==
    IF guids = <<>> THEN <<>>
    ELSE <<MapGet(ns, Head(guids))>> \o NodesOf(ns, Tail(guids))

\* Map.set for every element: a guid keeps the place of its first occurrence
RECURSIVE Dedupe(_, _)
Dedupe(acc, guids) ==
    IF guids = <<>> THEN acc ELSE Dedupe(KeysSet(acc, Head(guids)), Tail(guids))

\* deletes nothing
KeepOrphanFiles(fw) == fw

cleanupOrphanFiles(fw) ==
    IF ~deleteOrphansOnConnect THEN fw
    ELSE LET mapped == {fw.maps[i].filePath : i \in 1..Len(fw.maps)}
             swept == [fw EXCEPT !.files = [p \in DOMAIN fw.files \cap mapped |-> fw.files[p]]]
         IN  IF DOMAIN fw.files \subseteq mapped THEN fw ELSE cleanupEmptyDirectories(swept)

Quiet ==
    [op |-> "none", guid |-> NoGuid, path |-> <<>>, writes |-> <<>>, unarmed |-> {},
     armed |-> {}, affected |-> <<>>, oldFiles |-> {}, moved |-> FALSE, isNew |-> FALSE,
     events |-> {}, origins |-> {}, dropped |-> FALSE, delivered |-> FALSE,
     byUser |-> FALSE, patch |-> <<>>, broadcast |-> <<>>, entries |-> <<>>,
     removed |-> {}, payload |-> "", fault |-> "none", escaped |-> FALSE,
     message |-> [type |-> "none", config |-> [kind |-> "pending"]],
     calls |-> <<>>, count |-> 0,
     client |-> 0, response |-> [status |-> 0, error |-> "", messages |-> <<>>]]

Emitting == watcher \/ leaked > 0

handleFullSnapshot(data) ==
    LET ns == applyFullSnapshot(data)
        fw == cleanupOrphanFiles(writeTree(Fw, ns))
        written == WrittenPaths(ns, Guids(getScriptNodes(ns)))
    IN  /\ nodes' = ns
        /\ fileMappings' = fw.maps
        /\ files' = fw.files
        /\ dirs' = fw.dirs
        \* fileWatcher.watch(): a running watcher is stopped, without awaiting it
        /\ watcher' = TRUE
        /\ stopPending' = IF watcher THEN stopPending + 1 ELSE stopPending
        /\ leaked' = leaked
        /\ debounceTimers' = ChangesOf(debounceTimers, files, written, "fullSnapshot",
                                       leaked > 0)
        /\ suppressed' = suppressed
        /\ sourcemap' = generateAndWrite(ns, fw.maps)
        /\ last' = [Quiet EXCEPT !.op = "fullSnapshot", !.writes = written,
                                 !.entries = data,
                                 !.removed = DOMAIN files \ DOMAIN fw.files,
                                 !.events = Range(ChangedPaths(files, written, leaked > 0)),
                                 !.unarmed = Range(written) \ suppressed]

\* a path that is not the one writeScript writes
SuppressPathOfDirectory(node) == Dirname(getFilePath(node))

\* the path handleScriptChanged precomputes and arms before it writes
SuppressPath(node) == getFilePath(node)

handleScriptChanged(message) ==
    LET updated == updateScriptSource(nodes, message.guid, message.source)
        ns == IF MapHas(updated, message.guid) THEN updated
              ELSE updateInstance(updated,
                      [guid |-> message.guid, className |-> message.className,
                       name |-> Last(message.path), path |-> message.path,
                       source |-> message.source])
        node == MapGet(ns, message.guid)
        filePath == SuppressPath(node)
        fw == writeScript(Fw, node)
        written == WrittenPaths(ns, <<message.guid>>)
    IN  /\ nodes' = ns
        /\ suppressed' = suppressNextChange(suppressed, filePath)
        /\ fileMappings' = fw.maps
        /\ files' = fw.files
        /\ dirs' = fw.dirs
        /\ debounceTimers' = ChangesOf(debounceTimers, files, written, "scriptChanged",
                                       Emitting)
        /\ sourcemap' = upsertSubtree(sourcemap, ns, fw.maps, message.guid,
                                      FALSE, <<>>, FALSE)
        /\ last' = [Quiet EXCEPT !.op = "scriptChanged", !.guid = message.guid,
                                 !.writes = written, !.armed = {filePath},
                                 !.events = Range(ChangedPaths(files, written, Emitting)),
                                 !.unarmed = Range(written) \ suppressed']
        /\ UNCHANGED <<watcher, leaked, stopPending>>

\* the scripts handleInstanceUpdated rewrites
ScriptsToUpdate(ns, guid, update) ==
    Dedupe(IF isScriptClass(MapGet(ns, guid).className) THEN <<guid>> ELSE <<>>,
           IF update.pathChanged \/ update.nameChanged
           THEN getDescendantScripts(ns, guid, Len(ns))
           ELSE <<>>)

handleInstanceUpdated(data) ==
    LET update == UpdateResult(nodes, data)
        ns == updateInstance(nodes, data)
        node == MapGet(ns, data.guid)
        scriptsToUpdate == ScriptsToUpdate(ns, data.guid, update)
        armed == {getFilePath(MapGet(ns, g)) : g \in Range(scriptsToUpdate)}
        written == WrittenPaths(ns, scriptsToUpdate)
        fw == cleanupEmptyDirectories(WriteAll(Fw, NodesOf(ns, scriptsToUpdate)))
        shouldUpdateSourcemap ==
            update.isNew \/ update.pathChanged \/ update.nameChanged
            \/ isScriptClass(node.className)
    IN  /\ nodes' = ns
        /\ suppressed' = suppressed \cup armed
        /\ fileMappings' = fw.maps
        /\ files' = fw.files
        /\ dirs' = fw.dirs
        /\ debounceTimers' = ChangesOf(debounceTimers, files, written, "instanceUpdated",
                                       Emitting)
        /\ sourcemap' = IF shouldUpdateSourcemap
                        THEN upsertSubtree(sourcemap, ns, fw.maps, data.guid,
                                           update.hasPrev, update.prevPath, update.isNew)
                        ELSE sourcemap
        /\ last' = [Quiet EXCEPT
                      !.op = "instanceUpdated", !.guid = data.guid,
                      !.path = update.prevPath,
                      !.moved = update.pathChanged \/ update.nameChanged,
                      !.isNew = update.isNew,
                      !.affected = scriptsToUpdate,
                      !.oldFiles = {MapGet(fileMappings, g).filePath :
                                      g \in {x \in Range(scriptsToUpdate) :
                                                MapHas(fileMappings, x)}},
                      !.writes = written, !.armed = armed,
                      !.events = Range(ChangedPaths(files, written, Emitting)),
                      !.unarmed = Range(written) \ suppressed']
        /\ UNCHANGED <<watcher, leaked, stopPending>>

\* deleteScript(guid), and deleteFilePath(filePath) when it removed nothing
RECURSIVE DeleteScripts(_, _)
DeleteScripts(fw, scriptsToDelete) ==
    IF scriptsToDelete = <<>> THEN fw
    ELSE LET entry == Head(scriptsToDelete)
             next == IF MapHas(fw.maps, entry.guid)
                     THEN deleteScript(fw, entry.guid)
                     ELSE deleteFilePath(fw, entry.filePath)
         IN  DeleteScripts(next, Tail(scriptsToDelete))

handleDeleted(guid) ==
    IF ~MapHas(nodes, guid)
    THEN LET fw == cleanupEmptyDirectories(deleteScript(Fw, guid))
         IN  /\ fileMappings' = fw.maps
             /\ files' = fw.files
             /\ dirs' = fw.dirs
             /\ last' = [Quiet EXCEPT !.op = "deleted", !.guid = guid]
             /\ UNCHANGED <<nodes, sourcemap, watcher, leaked, stopPending,
                            debounceTimers, suppressed>>
    ELSE LET node == MapGet(nodes, guid)
             scripts == (IF isScriptClass(node.className) THEN <<guid>> ELSE <<>>)
                        \o getDescendantScripts(nodes, guid, Len(nodes))
             scriptsToDelete == [i \in 1..Len(scripts) |->
                                   [guid |-> scripts[i],
                                    filePath |-> getFilePath(MapGet(nodes, scripts[i]))]]
             ns == deleteInstance(nodes, guid)
             fw == cleanupEmptyDirectories(DeleteScripts(Fw, scriptsToDelete))
             pruned == prunePath(sourcemap, node.path, ns, fw.maps, node.className)
         IN  /\ nodes' = ns
             /\ fileMappings' = fw.maps
             /\ files' = fw.files
             /\ dirs' = fw.dirs
             /\ sourcemap' = IF pruned.pruned THEN pruned.sm
                             ELSE generateAndWrite(ns, fw.maps)
             /\ last' = [Quiet EXCEPT !.op = "deleted", !.guid = guid,
                                      !.path = node.path, !.affected = scripts,
                                      !.oldFiles = {MapGet(fileMappings, g).filePath :
                                                      g \in {x \in Range(scripts) :
                                                                MapHas(fileMappings, x)}}]
             /\ UNCHANGED <<watcher, leaked, stopPending, debounceTimers, suppressed>>

\* handleScriptChanged when the write of the script fails: no handler of the
\* daemon has a try, so what writeScript throws ends handleScriptChanged
\* before upsertSubtree and leaves handleStudioMessage
handleScriptChangedFailing(message, fault) ==
    LET updated == updateScriptSource(nodes, message.guid, message.source)
        ns == IF MapHas(updated, message.guid) THEN updated
              ELSE updateInstance(updated,
                      [guid |-> message.guid, className |-> message.className,
                       name |-> Last(message.path), path |-> message.path,
                       source |-> message.source])
        node == MapGet(ns, message.guid)
        filePath == SuppressPath(node)
        w == writeScriptFailing(Fw, node, fault)
    IN  /\ w.failed
        /\ nodes' = ns
        /\ suppressed' = suppressNextChange(suppressed, filePath)
        /\ fileMappings' = w.fw.maps
        /\ files' = w.fw.files
        /\ dirs' = w.fw.dirs
        /\ sourcemap' = IF w.threw THEN sourcemap
                        ELSE upsertSubtree(sourcemap, ns, w.fw.maps, message.guid,
                                           FALSE, <<>>, FALSE)
        /\ last' = [Quiet EXCEPT !.op = "scriptChangedFailed", !.guid = message.guid,
                                 !.fault = fault, !.escaped = w.threw,
                                 !.armed = {filePath}]
        /\ UNCHANGED <<watcher, leaked, stopPending, debounceTimers>>

\* deleteScript(guid) for every script while unlinkSync throws; the direct
\* delete of the same path that follows a failed deleteScript fails as well
RECURSIVE DeleteScriptsFailing(_, _)
DeleteScriptsFailing(fw, scriptsToDelete) ==
    IF scriptsToDelete = <<>> THEN fw
    ELSE DeleteScriptsFailing(deleteScriptFailing(fw, Head(scriptsToDelete).guid),
                              Tail(scriptsToDelete))

\* handleDeleted when every unlink fails
handleDeletedFailing(guid) ==
    IF ~MapHas(nodes, guid)
    THEN LET fw == cleanupEmptyDirectories(deleteScriptFailing(Fw, guid))
         IN  /\ fileMappings' = fw.maps
             /\ files' = fw.files
             /\ dirs' = fw.dirs
             /\ last' = [Quiet EXCEPT !.op = "deletedFailed", !.guid = guid,
                                      !.fault = "unlink", !.escaped = FALSE]
             /\ UNCHANGED <<nodes, sourcemap, watcher, leaked, stopPending,
                            debounceTimers, suppressed>>
    ELSE LET node == MapGet(nodes, guid)
             scripts == (IF isScriptClass(node.className) THEN <<guid>> ELSE <<>>)
                        \o getDescendantScripts(nodes, guid, Len(nodes))
             scriptsToDelete == [i \in 1..Len(scripts) |->
                                   [guid |-> scripts[i],
                                    filePath |-> getFilePath(MapGet(nodes, scripts[i]))]]
             ns == deleteInstance(nodes, guid)
             fw == cleanupEmptyDirectories(DeleteScriptsFailing(Fw, scriptsToDelete))
             pruned == prunePath(sourcemap, node.path, ns, fw.maps, node.className)
         IN  /\ nodes' = ns
             /\ fileMappings' = fw.maps
             /\ files' = fw.files
             /\ dirs' = fw.dirs
             /\ sourcemap' = IF pruned.pruned THEN pruned.sm
                             ELSE generateAndWrite(ns, fw.maps)
             /\ last' = [Quiet EXCEPT !.op = "deletedFailed", !.guid = guid,
                                      !.path = node.path, !.affected = scripts,
                                      !.fault = "unlink", !.escaped = FALSE]
             /\ UNCHANGED <<watcher, leaked, stopPending, debounceTimers, suppressed>>

\* SyncDaemon.handleFileChange: [nodes, patch] - patch is what goes out
DaemonFileChange(ns, maps, filePath, source) ==
    LET guid == getGuidByPath(maps, filePath)
    IN  IF guid # NoGuid
        THEN [nodes |-> updateScriptSource(ns, guid, source), guid |-> guid,
              patch |-> <<[type |-> "patchScript", guid |-> guid, source |-> source]>>]
        ELSE [nodes |-> ns, guid |-> NoGuid, patch |-> <<>>]

\* SyncDaemon.handleStudioMessage on a value that is no StudioMessage:
\* undefined makes "message.type" throw; an object without a known type falls
\* to the default branch, which logs; a fullSnapshot whose data is [null]
\* reaches applyFullSnapshot, which clears the store and throws on the first
\* entry.  [threw, nodes]
handleStudioMessage(ns, payload) ==
    CASE payload = "undefined" -> [threw |-> TRUE, nodes |-> ns]
      [] payload = "untyped" -> [threw |-> FALSE, nodes |-> ns]
      [] payload = "snapshotOfNull" -> [threw |-> TRUE, nodes |-> <<>>]
      [] OTHER -> [threw |-> FALSE, nodes |-> ns]

-----------------------------------------------------------------------------
(* IPCServer *)

\* a WebSocket connection: readyState and the messages sent to it
Socket == [state |-> "open", received |-> <<>>]

\* IPCServer.send: false (the sockets unchanged) without an open client
send(socks, current, message) ==
    IF current = 0 \/ socks[current].state # "open" THEN socks
    ELSE [socks EXCEPT ![current].received = Append(@, message)]

\* this.client.close(): an open socket starts its closing handshake
close(socks, current) ==
    IF current # 0 /\ socks[current].state = "open"
    THEN [socks EXCEPT ![current].state = "closing"]
    ELSE socks

\* wss.on("connection"): [client, sockets]
onConnection(socks, current) ==
    LET closed == close(socks, current)
        accepted == Append(closed, Socket)
    IN  [client |-> Len(accepted),
         sockets |-> send(accepted, Len(accepted), [type |-> "requestSnapshot"])]

\* ws.on("close") of socket i: [client, sockets]
onClose(socks, current, i) ==
    [client |-> 0, sockets |-> [socks EXCEPT ![i].state = "closed"]]

\* IPCServer.sendError
sendError(socks, current, message) ==
    send(socks, current, [type |-> "error", message |-> message])

\* ws.on("message") for data that is no well-formed message; handled is what
\* the message handler reports, [threw, nodes].  JSON.parse throws on text
\* that is no JSON, and what the handler throws is caught by the same try.
\* [sockets, nodes]
onMessage(socks, current, ns, payload, handled) ==
    IF payload = "text"
    THEN [sockets |-> sendError(socks, current, "Invalid JSON message"), nodes |-> ns]
    ELSE IF handled.threw
    THEN [sockets |-> sendError(socks, current, "Invalid JSON message"),
          nodes |-> handled.nodes]
    ELSE [sockets |-> socks, nodes |-> handled.nodes]

-----------------------------------------------------------------------------
(* HttpPollingServer *)

NoClient == 0

PollingClient(id, lastPoll) == [guid |-> id, messageQueue |-> <<>>, lastPoll |-> lastPoll]

\* generateClientId: a time stamp and nine random characters, taken to be
\* unique; the identifiers are numbered in the order they are generated
generateClientId(count) == count + 1

handleConnect(cs, count, time) == MapSet(cs, PollingClient(generateClientId(count), time))

\* messageQueue.splice(0) keeps the messages
PollKeepsQueue(cs, clientId, time) ==
    IF clientId = NoClient \/ ~MapHas(cs, clientId)
    THEN [clients |-> cs,
          response |-> [status |-> 404, error |-> "Client not found", messages |-> <<>>]]
    ELSE [clients |-> [cs EXCEPT ![MapIdx(cs, clientId)].lastPoll = time],
          response |-> [status |-> 200, error |-> "",
                        messages |-> MapGet(cs, clientId).messageQueue]]

\* handlePoll: [clients, response]
handlePoll(cs, clientId, time) ==
    IF clientId = NoClient \/ ~MapHas(cs, clientId)
    THEN [clients |-> cs,
          response |-> [status |-> 404, error |-> "Client not found", messages |-> <<>>]]
    ELSE [clients |-> [cs EXCEPT ![MapIdx(cs, clientId)] =
                          [@ EXCEPT !.lastPoll = time, !.messageQueue = <<>>]],
          response |-> [status |-> 200, error |-> "",
                        messages |-> MapGet(cs, clientId).messageQueue]]

\* handleSend on the "end" of the body: a body that is no JSON, or a handler
\* that throws, is answered 400, everything else 200.  [response, nodes]
handleSend(ns, payload, handled) ==
    IF payload = "text"
    THEN [response |-> [status |-> 400, error |-> "Invalid JSON", messages |-> <<>>],
          nodes |-> ns]
    ELSE IF handled.threw
    THEN [response |-> [status |-> 400, error |-> "Invalid JSON", messages |-> <<>>],
          nodes |-> handled.nodes]
    ELSE [response |-> [status |-> 200, error |-> "", messages |-> <<>>],
          nodes |-> handled.nodes]

handleDisconnect(cs, clientId) ==
    IF clientId # NoClient /\ MapHas(cs, clientId) THEN MapDelete(cs, clientId) ELSE cs

sendToClient(cs, clientId, message) ==
    IF ~MapHas(cs, clientId) THEN cs
    ELSE [cs EXCEPT ![MapIdx(cs, clientId)].messageQueue = Append(@, message)]

broadcast(cs, message) ==
    [i \in 1..Len(cs) |-> [cs[i] EXCEPT !.messageQueue = Append(@, message)]]

\* the default of cleanupStaleClients(timeoutMs)
staleTimeoutMs == 60000

\* cleanupStaleClients; nothing in the daemon calls it
cleanupStaleClients(cs, time, timeoutMs) ==
    SelectSeq(cs, LAMBDA c : ~(time - c.lastPoll > timeoutMs))

\* the history of the messages pushed to the queues of the clients in ids
Enqueue(history, ids, message) ==
    [c \in DOMAIN history |-> IF c \in ids THEN Append(history[c], message) ELSE history[c]]

RECURSIVE SendAll(_, _, _)
SendAll(socks, current, messages) ==
    IF messages = <<>> THEN socks
    ELSE SendAll(send(socks, current, Head(messages)), current, Tail(messages))

RECURSIVE BroadcastAll(_, _)
BroadcastAll(cs, messages) ==
    IF messages = <<>> THEN cs
    ELSE BroadcastAll(broadcast(cs, Head(messages)), Tail(messages))

RECURSIVE EnqueueAll(_, _, _)
EnqueueAll(history, ids, messages) ==
    IF messages = <<>> THEN history
    ELSE EnqueueAll(Enqueue(history, ids, Head(messages)), ids, Tail(messages))

\* SyncDaemon.handleFileChange: ipc.patchScript and httpPolling.broadcast
SendOut(messages) ==
    /\ sockets' = SendAll(sockets, ipcClient, messages)
    /\ clients' = BroadcastAll(clients, messages)
    /\ enqueued' = EnqueueAll(enqueued, MapKeys(clients), messages)
    /\ UNCHANGED <<ipcClient, now, issued, polled>>

-----------------------------------------------------------------------------
(* PushCommand *)

\* A file name is the sequence of its parts between the dots:
\* "Foo.server.lua" is <<"Foo", "server", "lua">>
RECURSIVE Join(_)
Join(parts) ==
    IF parts = <<>> THEN ""
    ELSE IF Len(parts) = 1 THEN parts[1]
    ELSE parts[1] \o "." \o Join(Tail(parts))

\* fileName.replace(/\.lua$/i, ".luau")
NormalizeExtension(fileName) ==
    IF Len(fileName) >= 2 /\ Last(fileName) = "lua"
    THEN Append(Front(fileName), "luau")
    ELSE fileName

\* s.replace(/\.<tail>$/, "")
StripTail(parts, tail) ==
    IF Len(parts) >= 2 /\ Last(parts) = tail THEN Front(parts) ELSE parts

\* base.endsWith("." + tail)
EndsWith(parts, tail) == Len(parts) >= 2 /\ Last(parts) = tail

classifyScript(fileName) ==
    LET normalized == NormalizeExtension(fileName)
        base == StripTail(normalized, "luau")
    IN  IF EndsWith(base, "server")
        THEN [className |-> "Script", scriptName |-> Join(StripTail(base, "server"))]
        ELSE IF EndsWith(base, "client")
        THEN [className |-> "LocalScript", scriptName |-> Join(StripTail(base, "client"))]
        ELSE IF EndsWith(base, "module")
        THEN [className |-> "ModuleScript", scriptName |-> Join(StripTail(base, "module"))]
        ELSE [className |-> "ModuleScript", scriptName |-> Join(base)]

\* the instance collectLooseScripts emits for a script file of directory dir
LooseScript(dir, fileName) ==
    LET c == classifyScript(fileName)
    IN  [guid |-> "g", className |-> c.className, name |-> c.scriptName,
         path |-> Append(dir, c.scriptName), source |-> "x"]

-----------------------------------------------------------------------------
(* RojoSnapshotBuilder *)

\* A manifest node is [name, className, path, children]: className is "" when
\* the node has no $className, path is NoPath when it has no $path, children
\* are the keys that do not start with "$", in the order of Object.entries.
\* The disk below the project directory is the sequence of its files
\* [dir, name, source] in the order readdir lists them.
NoPath == <<"$none">>

NoInit == [fileName |-> <<>>, source |-> ""]

\* fs.access(target) succeeds, for a directory
exists(disk, target) == \E i \in 1..Len(disk) : IsPrefix(target, disk[i].dir)

\* no default pattern matches a path: globToRegex escapes "*" before it
\* replaces "**" and "*", which leaves "\[^/]*" in the expression; the
\* manifests here carry no globIgnorePaths
isIgnored(absPath) == FALSE

initCandidatesFor ==
    <<<<"init", "lua">>, <<"init", "luau">>,
      <<"init", "server", "lua">>, <<"init", "server", "luau">>,
      <<"init", "client", "lua">>, <<"init", "client", "luau">>,
      <<"init", "module", "lua">>, <<"init", "module", "luau">>>>

findInit(disk, dirPath) ==
    LET k == FindIndex({c \in 1..Len(initCandidatesFor) :
                          \E i \in 1..Len(disk) :
                             /\ disk[i].dir = dirPath
                             /\ disk[i].name = initCandidatesFor[c]})
    IN  IF k = 0 THEN NoInit
        ELSE LET i == CHOOSE j \in 1..Len(disk) :
                         disk[j].dir = dirPath /\ disk[j].name = initCandidatesFor[k]
             IN  [fileName |-> initCandidatesFor[k], source |-> disk[i].source]

\* RojoSnapshotBuilder.isScriptFile
RojoIsScriptFile(fileName) ==
    Len(fileName) >= 2 /\ Last(fileName) \in {"lua", "luau"}

\* RojoSnapshotBuilder.classifyScript
RojoClassifyScript(fileName) ==
    LET normalized == NormalizeExtension(fileName)
        base == StripTail(normalized, "luau")
    IN  IF EndsWith(base, "server")
        THEN [className |-> "Script", scriptName |-> Join(StripTail(base, "server"))]
        ELSE IF EndsWith(base, "client")
        THEN [className |-> "LocalScript", scriptName |-> Join(StripTail(base, "client"))]
        ELSE IF EndsWith(base, "module")
        THEN [className |-> "ModuleScript", scriptName |-> Join(StripTail(base, "module"))]
        ELSE [className |-> "ModuleScript", scriptName |-> Join(base)]

\* results.push(...) with a fresh guid; the builder is
\* [results, emittedFolders, moduleContainers, destPrefix], its two sets keyed
\* by the path itself
PushResult(b, className, name, pathSegments, source) ==
    [b EXCEPT !.results = Append(@, [guid |-> Len(b.results) + 1, className |-> className,
                                     name |-> name, path |-> pathSegments,
                                     source |-> source])]

RECURSIVE ensureFolder(_, _)
ensureFolder(b, pathSegments) ==
    IF pathSegments = <<>> THEN b
    ELSE IF pathSegments \in b.moduleContainers THEN b
    ELSE IF pathSegments \in b.emittedFolders THEN b
    ELSE LET parents == ensureFolder(b, Front(pathSegments))
         IN  PushResult([parents EXCEPT !.emittedFolders = @ \cup {pathSegments}],
                  "Folder", Last(pathSegments), pathSegments, NoSource)

resolveClassName(node, pathSegments) ==
    IF node.className # "" THEN node.className
    ELSE IF Len(pathSegments) = 1 THEN pathSegments[1]
    ELSE "Folder"

\* fs.readdir(dirPath, {withFileTypes: true}): the entries among the first k
\* files of the disk
RECURSIVE readdir(_, _, _)
readdir(disk, dirPath, k) ==
    IF k = 0 THEN <<>>
    ELSE LET before == readdir(disk, dirPath, k - 1)
             f == disk[k]
         IN  IF f.dir = dirPath
             THEN Append(before, [name |-> Join(f.name), isDirectory |-> FALSE,
                                  fileName |-> f.name, source |-> f.source])
             ELSE IF IsPrefix(dirPath, f.dir)
             THEN LET sub == f.dir[Len(dirPath) + 1]
                  IN  IF \E j \in 1..Len(before) : before[j].isDirectory /\ before[j].name = sub
                      THEN before
                      ELSE Append(before, [name |-> sub, isDirectory |-> TRUE,
                                           fileName |-> <<>>, source |-> ""])
             ELSE before

\* walkDirectory for a directory without a default.project.json of its own
RECURSIVE walkDirectory(_, _, _, _, _)
RECURSIVE WalkEntries(_, _, _, _, _, _)
walkDirectory(b, disk, dirPath, destPath, definedChildren) ==
    IF isIgnored(dirPath) THEN b
    ELSE LET entries == readdir(disk, dirPath, Len(disk))
             init == FindIndex({i \in 1..Len(entries) :
                                  /\ ~entries[i].isDirectory
                                  /\ \E c \in 1..Len(initCandidatesFor) :
                                        initCandidatesFor[c] = entries[i].fileName})
             started ==
                 IF init # 0
                 THEN IF destPath \in b.moduleContainers THEN b
                      ELSE LET marked == [b EXCEPT !.moduleContainers = @ \cup {destPath}]
                           IN  PushResult(ensureFolder(marked, Front(destPath)),
                                    RojoClassifyScript(entries[init].fileName).className,
                                    IF destPath = <<>> THEN Last(dirPath) ELSE Last(destPath),
                                    destPath, entries[init].source)
                 ELSE ensureFolder(b, destPath)
         IN  WalkEntries(started, disk, dirPath, destPath, definedChildren, entries)

\* the loop of walkDirectory over the entries
WalkEntries(b, disk, dirPath, destPath, definedChildren, entries) ==
    IF entries = <<>> THEN b
    ELSE LET entry == Head(entries)
             c == RojoClassifyScript(entry.fileName)
             done ==
                 IF isIgnored(Append(dirPath, entry.name)) THEN b
                 ELSE IF entry.name \in definedChildren THEN b
                 ELSE IF entry.isDirectory
                 THEN walkDirectory(ensureFolder(b, Append(destPath, entry.name)), disk,
                                    Append(dirPath, entry.name),
                                    Append(destPath, entry.name), {})
                 ELSE IF \E k \in 1..Len(initCandidatesFor) :
                            initCandidatesFor[k] = entry.fileName
                 THEN b
                 ELSE IF ~RojoIsScriptFile(entry.fileName) THEN b
                 ELSE IF Join(Front(entry.fileName)) \in definedChildren THEN b
                 ELSE IF c.scriptName \in definedChildren THEN b
                 ELSE PushResult(ensureFolder(b, destPath), c.className, c.scriptName,
                           Append(destPath, c.scriptName), entry.source)
         IN  WalkEntries(done, disk, dirPath, destPath, definedChildren, Tail(entries))

RECURSIVE emitNode(_, _, _, _)
RECURSIVE EmitChildren(_, _, _, _)
emitNode(b, node, pathSegments, disk) ==
    LET className == resolveClassName(node, pathSegments)
        definedChildren == {node.children[i].name : i \in 1..Len(node.children)}
        initScript == IF node.path # NoPath THEN findInit(disk, node.path) ELSE NoInit
        parents == ensureFolder(b, Front(pathSegments))
        emitted ==
            IF initScript # NoInit
            THEN PushResult([parents EXCEPT !.moduleContainers = @ \cup {pathSegments}],
                      RojoClassifyScript(initScript.fileName).className,
                      Last(pathSegments), pathSegments, initScript.source)
            ELSE PushResult(parents, className, node.name, pathSegments, NoSource)
        recursed == EmitChildren(emitted, node.children, pathSegments, disk)
    IN  IF node.path # NoPath /\ exists(disk, node.path)
        THEN walkDirectory(recursed, disk, node.path, pathSegments, definedChildren)
        ELSE recursed

\* the loop of emitNode over the children defined in the manifest
EmitChildren(b, children, pathSegments, disk) ==
    IF children = <<>> THEN b
    ELSE EmitChildren(emitNode(b, Head(children), Append(pathSegments, Head(children).name),
                               disk),
                      Tail(children), pathSegments, disk)

RECURSIVE walkTree(_, _, _, _)
walkTree(b, tree, parentPath, disk) ==
    IF tree = <<>> THEN b
    ELSE walkTree(emitNode(b, Head(tree),
                           b.destPrefix \o parentPath \o <<Head(tree).name>>, disk),
                  Tail(tree), parentPath, disk)

\* a.path.join("/").localeCompare(b.path.join("/")) < 0 for paths of equal
\* length over names none of which is the beginning of another
NameOrder ==
    <<"init", "Mod", "Packages", "ReplicatedStorage", "Shared", "src", "Sub", "Util">>

NameRank(name) == FindIndex({i \in 1..Len(NameOrder) : NameOrder[i] = name})

RECURSIVE PathBefore(_, _)
PathBefore(a, b) ==
    IF a = <<>> \/ b = <<>> THEN FALSE
    ELSE IF Head(a) # Head(b) THEN NameRank(Head(a)) < NameRank(Head(b))
    ELSE PathBefore(Tail(a), Tail(b))

\* the comparator of results.sort: shallow first, then lexical
SortsBefore(a, b) ==
    IF Len(a.path) # Len(b.path) THEN Len(a.path) < Len(b.path)
    ELSE PathBefore(a.path, b.path)

\* Array.prototype.sort, which is stable
RECURSIVE StableSort(_)
StableSort(results) ==
    IF results = <<>> THEN <<>>
    ELSE LET sorted == StableSort(Front(results))
             x == Last(results)
             k == Cardinality({i \in 1..Len(sorted) : ~SortsBefore(x, sorted[i])})
         IN  SubSeq(sorted, 1, k) \o <<x>> \o SubSeq(sorted, k + 1, Len(sorted))

\* RojoSnapshotBuilder.build for the manifest [path, children] of the project
\* file: the list of instances
build(manifest, disk, destPrefix) ==
    LET b == [results |-> <<>>, emittedFolders |-> {}, moduleContainers |-> {},
              destPrefix |-> destPrefix]
        walked == IF manifest.children = <<>> /\ manifest.path # NoPath
                  THEN walkDirectory(b, disk, manifest.path, destPrefix, {})
                  ELSE walkTree(b, manifest.children, <<>>, disk)
    IN  StableSort(walked.results)

-----------------------------------------------------------------------------
(* PushCommand.run *)

\* The -d argument is the sequence of its segments and separators,
\* "ReplicatedStorage.Packages" is <<"ReplicatedStorage", ".", "Packages">>;
\* <<>> is no -d.  The -s argument is "" when it was not given.
IsSegment(token) == token \notin {".", "/", "\\", "", " "}

\* input.split(/[./\\]+/).map((segment) => segment.trim()).filter(Boolean)
parseDestination(input) == SelectSeq(input, IsSegment)

\* the timeout of waitForPushConfig
WaitMs == 8000

Pending == [kind |-> "pending"]

\* resolve(null)
NoConfig == [kind |-> "null"]

\* buildRojoInstances without a source root: every project file found is built
\* with the destination as its prefix; null (ok = FALSE) when there is no
\* project file or a build throws, which it does when the $path of the
\* manifest's root is no directory
RECURSIVE buildRojoInstances(_, _, _)
buildRojoInstances(destSegments, projectFiles, disk) ==
    IF projectFiles = <<>> THEN [ok |-> FALSE, found |-> FALSE, instances |-> <<>>]
    ELSE LET manifest == Last(projectFiles)
             earlier == IF Len(projectFiles) = 1
                        THEN [ok |-> TRUE, found |-> TRUE, instances |-> <<>>]
                        ELSE buildRojoInstances(destSegments, Front(projectFiles), disk)
             throws == /\ manifest.children = <<>>
                       /\ manifest.path # NoPath
                       /\ ~exists(disk, manifest.path)
         IN  IF ~earlier.ok \/ throws THEN [ok |-> FALSE, found |-> TRUE, instances |-> <<>>]
             ELSE [ok |-> TRUE, found |-> TRUE,
                   instances |-> earlier.instances \o build(manifest, disk, destSegments)]

\* what SnapshotBuilder builds for a plain mapping is not looked into: the
\* instance list is named by the arguments of the build
PlainInstances(sourceDir, destSegments) ==
    [builder |-> "SnapshotBuilder", sourceDir |-> sourceDir, destPrefix |-> destSegments]

\* the loop of run over the mappings: one snapshot mapping for every mapping
\* whose source is found
RECURSIVE Prepare(_, _)
Prepare(mappings, sources) ==
    IF mappings = <<>> THEN <<>>
    ELSE LET mapping == Head(mappings)
             rest == Prepare(Tail(mappings), sources)
         IN  IF mapping.source \notin sources THEN rest
             ELSE <<[destination |-> mapping.destination,
                     destructive |-> mapping.destructive,
                     instances |-> PlainInstances(mapping.source, mapping.destination)]>>
                  \o rest

\* run after collectMappings has returned
Proceed(p, mappings) ==
    IF mappings = <<>> THEN [p EXCEPT !.phase = "done"]
    ELSE LET snapshotMappings == Prepare(mappings, p.sources)
         IN  IF snapshotMappings = <<>> THEN [p EXCEPT !.phase = "done", !.mappings = mappings]
             ELSE [p EXCEPT !.phase = "built", !.mappings = mappings,
                            !.snapshot = snapshotMappings]

IsValidMapping(m) == m.source # "" /\ m.destination # <<>>

\* collectMappings after waitForPushConfig has resolved
Resolved(p, config) ==
    LET q == [p EXCEPT !.resolved = TRUE, !.resolution = config, !.resolutions = @ + 1]
    IN  IF config = NoConfig THEN [q EXCEPT !.phase = "done"]
        ELSE LET sanitized == SelectSeq(config.mappings, IsValidMapping)
             IN  Proceed(q, [i \in 1..Len(sanitized) |->
                               [source |-> sanitized[i].source,
                                destination |-> sanitized[i].destination,
                                destructive |-> sanitized[i].destructive,
                                rojoMode |-> FALSE]])

\* a handler that resolves on every pushConfig
ResolveOnEveryConfig(p, message) ==
    IF message.type # "pushConfig" THEN p
    ELSE Resolved([p EXCEPT !.timer = IF @ = "armed" THEN "cleared" ELSE @], message.config)

\* the message handler waitForPushConfig registers
onPushMessage(p, message) ==
    IF message.type # "pushConfig" THEN p
    ELSE LET cleared == [p EXCEPT !.timer = IF @ = "armed" THEN "cleared" ELSE @]
         IN  IF cleared.resolved THEN cleared ELSE Resolved(cleared, message.config)

\* the callback of the timer waitForPushConfig sets
onTimeout(p) ==
    LET fired == [p EXCEPT !.timer = "fired"]
    IN  IF fired.resolved THEN fired ELSE Resolved(fired, NoConfig)

\* run up to its first wait
run(p, options) ==
    LET q == [p EXCEPT !.options = options]
        destSegments == parseDestination(options.destination)
    IN  IF options.rojoMode
        THEN LET built == buildRojoInstances(destSegments, p.projectFiles, p.disk)
             IN  IF ~built.ok THEN [q EXCEPT !.phase = "done"]
                 ELSE [q EXCEPT !.phase = "built",
                                !.snapshot = <<[destination |-> destSegments,
                                                destructive |-> options.destructive,
                                                instances |-> built.instances]>>]
        ELSE IF options.source # "" /\ options.destination # <<>>
        THEN IF destSegments = <<>> THEN [q EXCEPT !.phase = "done"]
             ELSE Proceed(q, <<[source |-> options.source, destination |-> destSegments,
                                destructive |-> options.destructive, rojoMode |-> FALSE]>>)
        ELSE IF ~options.usePlaceConfig THEN [q EXCEPT !.phase = "done"]
        ELSE [q EXCEPT !.phase = "waiting", !.timer = "armed", !.elapsed = 0]

\* this.ipc.send({type: "pushSnapshot", mappings: snapshotMappings})
sendSnapshot(p) ==
    [p EXCEPT !.phase = "sent",
              !.sent = Append(@, [type |-> "pushSnapshot", mappings |-> p.snapshot])]

\* the end of run: send at once when the editor is connected, else on its
\* connection
sendWhenConnected(p) ==
    IF p.connected THEN sendSnapshot(p) ELSE [p EXCEPT !.phase = "listening"]

\* the callbacks registered with onConnection
onPushConnection(p) ==
    LET asked == IF p.timer # "unset"
                 THEN [p EXCEPT !.connected = TRUE, !.requests = @ + 1]
                 ELSE [p EXCEPT !.connected = TRUE]
    IN  IF p.phase = "listening" THEN sendSnapshot(asked) ELSE asked

-----------------------------------------------------------------------------
(* The editor's messages and the user's edits *)

Instance(guid, className, path, source) ==
    [guid |-> guid, className |-> className, name |-> Last(path), path |-> path,
     source |-> source]

ServiceS == Instance("s", "Folder", <<"S">>, NoSource)
ScriptP  == Instance("p", "ModuleScript", <<"S", "P">>, "x")
ScriptQ  == Instance("q", "ModuleScript", <<"S", "P", "Q">>, "y")

\* fullSnapshot: the whole tree; a tree without P, whose child Q then has no
\* parent; a tree without any service
Snapshots == {<<ServiceS, ScriptP, ScriptQ>>, <<ServiceS, ScriptQ>>, <<ScriptP>>}

\* instanceUpdated: creation, a rename of P, an emptied P, a Q that shares P's path
UpdateEntries ==
    {ServiceS, ScriptP, ScriptQ,
     Instance("p", "ModuleScript", <<"S", "R?">>, "x"),
     Instance("p", "ModuleScript", <<"S", "P">>, ""),
     Instance("q", "ModuleScript", <<"S", "P">>, "y")}

\* scriptChanged{guid, path, className, source}
ScriptMessages ==
    {[guid |-> e.guid, path |-> e.path, className |-> e.className, source |-> src] :
        e \in {ScriptP, ScriptQ}, src \in {"z", ""}}

DeletedGuids == {"s", "p", "q"}

UserBodies == {"u"}

\* the patches the daemon sends
PatchMessages ==
    {[type |-> "patchScript", guid |-> "p", source |-> src] : src \in {"u", "v"}}

\* script file names: a base name, an optional class suffix, an extension
FileNames ==
    {<<stem>> \o suffix \o <<ext>> :
        stem \in {"Foo", "init", "Mod", "Sub", "Util"},
        suffix \in {<<>>, <<"server">>, <<"client">>, <<"module">>},
        ext \in {"lua", "luau"}}

\* the logical paths of the directories that hold them
Directories == {<<"ReplicatedStorage">>, <<"X">>, <<"X", "Mod">>}

NoName == [fileName |-> <<>>, dir |-> <<>>, className |-> "", scriptName |-> "",
           encoded |-> ""]

\* inbound data that is no well-formed message: text that is no JSON, an
\* object without a type, a fullSnapshot whose data is [null]; and for /send
\* also a body without a message
WsPayloads == {"text", "untyped", "snapshotOfNull"}

SendPayloads == WsPayloads \cup {"undefined"}

\* the manifest of the worked example of manifest-driven push, one whose root
\* carries the $path, and one with a child declared next to a $path
ExampleManifest ==
    [path |-> NoPath,
     children |-> <<[name |-> "ReplicatedStorage", className |-> "ReplicatedStorage",
                     path |-> NoPath,
                     children |-> <<[name |-> "Packages", className |-> "",
                                     path |-> <<"Packages">>, children |-> <<>>]>>]>>]

RootPathManifest == [path |-> <<"src">>, children |-> <<>>]

SharedManifest ==
    [path |-> NoPath,
     children |-> <<[name |-> "Shared", className |-> "", path |-> <<"src">>,
                     children |-> <<[name |-> "Util", className |-> "Folder",
                                     path |-> NoPath, children |-> <<>>]>>]>>]

\* the project files found below the working directory
ProjectFiles == {<<>>, <<ExampleManifest>>, <<RootPathManifest>>, <<SharedManifest>>}

ExampleDisk == <<[dir |-> <<"Packages">>, name |-> <<"Util", "lua">>, source |-> "x"]>>

SrcDisk ==
    <<[dir |-> <<"src">>, name |-> <<"init", "luau">>, source |-> "i"],
      [dir |-> <<"src">>, name |-> <<"Util", "server", "lua">>, source |-> "u"],
      [dir |-> <<"src", "Sub">>, name |-> <<"Mod", "luau">>, source |-> "m"]>>

Disks == {ExampleDisk, SrcDisk}

\* the command line of the worked example: push -d ReplicatedStorage.Packages --rojo
ExampleOptions ==
    [source |-> "", destination |-> <<"ReplicatedStorage", ".", "Packages">>,
     destructive |-> FALSE, usePlaceConfig |-> TRUE, rojoMode |-> TRUE]

\* command lines; manifest-driven pushes are run without -s
PushOptions ==
    {o \in [source : {"", "src", "missing"},
            destination : {<<>>, <<".">>, <<"ReplicatedStorage", ".", "Packages">>},
            destructive : BOOLEAN, usePlaceConfig : BOOLEAN, rojoMode : BOOLEAN] :
        o.rojoMode => o.source = ""}

\* the source directories that exist
Sources == {"src"}

\* what the editor sends while the command runs; the mappings of its config
\* are plain ones
PushConfigs ==
    {[kind |-> "config", mappings |-> ms] :
        ms \in {<<>>,
                <<[source |-> "src", destination |-> <<"ServerStorage">>,
                   destructive |-> FALSE]>>,
                <<[source |-> "", destination |-> <<"ServerStorage">>,
                   destructive |-> FALSE],
                  [source |-> "missing", destination |-> <<"Workspace">>,
                   destructive |-> TRUE]>>}}

PushMessages ==
    {[type |-> "pushConfig", config |-> c] : c \in PushConfigs}
    \cup {[type |-> "ping", config |-> Pending]}

NoPush ==
    [phase |-> "idle",
     options |-> [source |-> "", destination |-> <<>>, destructive |-> FALSE,
                  usePlaceConfig |-> TRUE, rojoMode |-> FALSE],
     projectFiles |-> <<>>, disk |-> <<>>, sources |-> {}, connected |-> FALSE,
     resolved |-> FALSE, resolution |-> Pending, resolutions |-> 0, timer |-> "unset",
     elapsed |-> 0, requests |-> 0, mappings |-> <<>>, snapshot |-> <<>>, sent |-> <<>>]

\* the step and the horizon of the push command's clock
PushTickMs == 4000
MaxPushMs == 12000

\* the files below the watched directory: two scripts and a file that is none
WatchedPaths == {<<"S", "P", "init.luau">>, <<"S", "Q.lua">>, <<"S", "notes.txt">>}

\* the step and the horizon of the watcher's clock, and the longest burst
DebounceTickMs == 50
MaxDebounceMs == 200
MaxBurst == 2

\* the daemon before stop() is called
Running == [phase |-> "running", closing |-> FALSE]

NoDebounce ==
    [now |-> 0, timers |-> <<>>,
     lastEvent |-> [p \in WatchedPaths |-> 0],
     burst |-> [p \in WatchedPaths |-> 0],
     disk |-> [p \in WatchedPaths |-> "x"]]

\* the clientId of a request: none, one that was issued, one that never was
PollIds == 0..(MaxConnections + 1)

-----------------------------------------------------------------------------
(* The state machine *)

\* the daemon after its constructor, whatever its configuration
Constructed ==
    /\ nodes = <<>>
    /\ fileMappings = <<>>
    /\ files = <<>>
    /\ dirs = {}
    /\ sourcemap = [exists |-> FALSE, children |-> <<>>]
    /\ watcher = FALSE
    /\ leaked = 0
    /\ stopPending = 0
    /\ debounceTimers = <<>>
    /\ suppressed = {}
    /\ dirty = {}
    /\ steps = 0
    /\ ipcClient = 0
    /\ sockets = <<>>
    /\ clients = <<>>
    /\ now = 0
    /\ issued = 0
    /\ enqueued = <<>>
    /\ polled = <<>>
    /\ named = NoName
    /\ indexFile = [bytes |-> NoFile, target |-> NoFile, previous |-> NoFile,
                    writing |-> FALSE]
    /\ observed = NoFile
    /\ push = NoPush
    /\ debounce = NoDebounce
    /\ shutdown = Running
    /\ last = Quiet

\* the default configuration: orphan cleanup is off
Init == Constructed /\ deleteOrphansOnConnect = FALSE

\* orphan cleanup off or on
InitConfigured == Constructed /\ deleteOrphansOnConnect \in BOOLEAN

\* a daemon write or delete replaces what the user wrote
Undirty == dirty' = {p \in dirty : p \in DOMAIN files' /\ p \notin Range(last'.writes)}

FullSnapshot ==
    /\ steps < MaxSteps
    /\ UNCHANGED transportVars
    /\ UNCHANGED auxVars
    /\ \E data \in Snapshots : handleFullSnapshot(data)
    /\ Undirty
    /\ steps' = steps + 1

ScriptChanged ==
    /\ steps < MaxSteps
    /\ UNCHANGED transportVars
    /\ UNCHANGED auxVars
    /\ \E message \in ScriptMessages : handleScriptChanged(message)
    /\ Undirty
    /\ steps' = steps + 1

InstanceUpdated ==
    /\ steps < MaxSteps
    /\ UNCHANGED transportVars
    /\ UNCHANGED auxVars
    /\ \E data \in UpdateEntries : handleInstanceUpdated(data)
    /\ Undirty
    /\ steps' = steps + 1

Deleted ==
    /\ steps < MaxSteps
    /\ UNCHANGED transportVars
    /\ UNCHANGED auxVars
    /\ \E guid \in DeletedGuids :
          /\ MapHas(nodes, guid) \/ MapHas(fileMappings, guid)
          /\ handleDeleted(guid)
    /\ Undirty
    /\ steps' = steps + 1

\* the user saves a file of the sync directory while a watcher is running
UserEdit ==
    /\ steps < MaxSteps
    /\ Emitting
    /\ \E p \in DOMAIN files, body \in UserBodies :
          /\ files' = [files EXCEPT ![p] = body]
          /\ debounceTimers' = handleFileChange(debounceTimers, p, "user")
          /\ dirty' = dirty \cup {p}
          /\ last' = [Quiet EXCEPT !.op = "userEdit", !.path = p]
    /\ steps' = steps + 1
    /\ UNCHANGED <<nodes, fileMappings, dirs, sourcemap, watcher, leaked, stopPending,
                   suppressed>>
    /\ UNCHANGED transportVars
    /\ UNCHANGED auxVars

\* the debounce timer of a path fires
TimerFire ==
    \E p \in DOMAIN debounceTimers :
       LET dropped == ConsumesToken(suppressed, p)
           event == IF dropped THEN <<>> ELSE processFileChange(files, p)
           result == IF event = <<>>
                     THEN [nodes |-> nodes, guid |-> NoGuid, patch |-> <<>>]
                     ELSE DaemonFileChange(nodes, fileMappings, event[1].filePath,
                                           event[1].source)
       IN  /\ suppressed' = IF dropped THEN suppressed \ {p} ELSE suppressed
           /\ nodes' = result.nodes
           /\ debounceTimers' = [q \in DOMAIN debounceTimers \ {p} |-> debounceTimers[q]]
           /\ dirty' = IF result.patch # <<>> THEN dirty \ {p} ELSE dirty
           /\ last' = [Quiet EXCEPT !.op = "fire", !.path = p,
                                    !.origins = debounceTimers[p],
                                    !.dropped = dropped, !.delivered = event # <<>>,
                                    !.byUser = p \in dirty,
                                    !.guid = result.guid,
                                    !.patch = result.patch,
                                    !.broadcast = result.patch]
           /\ SendOut(result.patch)
           /\ UNCHANGED <<fileMappings, files, dirs, sourcemap, watcher, leaked,
                          stopPending, steps>>
           /\ UNCHANGED auxVars

\* the index is written only when the suspended stop() has resumed, as if
\* handleFullSnapshot awaited the watcher before regenerateSourcemap
StopResumesThenIndexes ==
    /\ stopPending > 0
    /\ stopPending' = stopPending - 1
    /\ watcher' = FALSE
    /\ leaked' = IF watcher THEN leaked + 1 ELSE leaked
    /\ debounceTimers' = <<>>
    /\ sourcemap' = generateAndWrite(nodes, fileMappings)
    /\ last' = [Quiet EXCEPT !.op = "stopResumed"]
    /\ UNCHANGED <<nodes, fileMappings, files, dirs, suppressed, dirty, steps>>
    /\ UNCHANGED transportVars
    /\ UNCHANGED auxVars

\* FileWatcher.stop() resumes after "await this.watcher.close()"
StopResumes ==
    /\ stopPending > 0
    /\ stopPending' = stopPending - 1
    /\ watcher' = FALSE
    /\ leaked' = IF watcher THEN leaked + 1 ELSE leaked
    /\ debounceTimers' = <<>>
    /\ last' = [Quiet EXCEPT !.op = "stopResumed"]
    /\ UNCHANGED <<nodes, fileMappings, files, dirs, sourcemap, suppressed, dirty, steps>>
    /\ UNCHANGED transportVars
    /\ UNCHANGED auxVars

\* a WebSocket client connects
WsConnect ==
    /\ steps < MaxRequests
    /\ steps' = steps + 1
    /\ Len(sockets) < MaxConnections
    /\ LET r == onConnection(sockets, ipcClient)
       IN  /\ ipcClient' = r.client
           /\ sockets' = r.sockets
           /\ last' = [Quiet EXCEPT !.op = "wsConnect", !.client = r.client]
    /\ UNCHANGED <<clients, now, issued, enqueued, polled>>
    /\ UNCHANGED daemonVars
    /\ UNCHANGED auxVars

\* the close event of a socket: the end of a closing handshake, or the peer
\* or the network closing an open socket
WsClose ==
    /\ steps < MaxRequests
    /\ steps' = steps + 1
    /\ \E i \in 1..Len(sockets) :
          /\ sockets[i].state \in {"open", "closing"}
          /\ LET r == onClose(sockets, ipcClient, i)
             IN  /\ ipcClient' = r.client
                 /\ sockets' = r.sockets
                 /\ last' = [Quiet EXCEPT !.op = "wsClose", !.client = i]
    /\ UNCHANGED <<clients, now, issued, enqueued, polled>>
    /\ UNCHANGED daemonVars
    /\ UNCHANGED auxVars

\* POST /connect
PollConnect ==
    /\ steps < MaxRequests
    /\ steps' = steps + 1
    /\ issued < MaxConnections
    /\ clients' = handleConnect(clients, issued, now)
    /\ issued' = issued + 1
    /\ enqueued' = Append(enqueued, <<>>)
    /\ polled' = Append(polled, <<>>)
    /\ last' = [Quiet EXCEPT !.op = "connect", !.client = generateClientId(issued)]
    /\ UNCHANGED <<ipcClient, sockets, now>>
    /\ UNCHANGED daemonVars
    /\ UNCHANGED auxVars

\* GET /poll?clientId=..., also without a clientId and with one never issued
Poll ==
    /\ steps < MaxRequests
    /\ steps' = steps + 1
    /\ \E clientId \in PollIds :
          LET r == handlePoll(clients, clientId, now)
          IN  /\ clients' = r.clients
              /\ polled' = IF r.response.status = 200
                           THEN [polled EXCEPT ![clientId] = @ \o r.response.messages]
                           ELSE polled
              /\ last' = [Quiet EXCEPT !.op = "poll", !.client = clientId,
                                       !.response = r.response]
    /\ UNCHANGED <<ipcClient, sockets, now, issued, enqueued>>
    /\ UNCHANGED daemonVars
    /\ UNCHANGED auxVars

\* POST /disconnect
PollDisconnect ==
    /\ steps < MaxRequests
    /\ steps' = steps + 1
    /\ \E clientId \in PollIds :
          /\ clients' = handleDisconnect(clients, clientId)
          /\ last' = [Quiet EXCEPT !.op = "disconnect", !.client = clientId]
    /\ UNCHANGED <<ipcClient, sockets, now, issued, enqueued, polled>>
    /\ UNCHANGED daemonVars
    /\ UNCHANGED auxVars

\* the daemon sends a patch on both transports
PatchScript ==
    /\ steps < MaxRequests
    /\ steps' = steps + 1
    /\ \A c \in DOMAIN enqueued : Len(enqueued[c]) < MaxQueue
    /\ \A i \in 1..Len(sockets) : Len(sockets[i].received) <= MaxQueue
    /\ \E message \in PatchMessages :
          /\ SendOut(<<message>>)
          /\ last' = [Quiet EXCEPT !.op = "patchScript", !.patch = <<message>>,
                                   !.broadcast = <<message>>]
    /\ UNCHANGED daemonVars
    /\ UNCHANGED auxVars

\* sendToClient(clientId, message)
SendToClient ==
    /\ steps < MaxRequests
    /\ steps' = steps + 1
    /\ \A c \in DOMAIN enqueued : Len(enqueued[c]) < MaxQueue
    /\ \E clientId \in PollIds \ {NoClient}, message \in PatchMessages :
          /\ clients' = sendToClient(clients, clientId, message)
          /\ enqueued' = IF MapHas(clients, clientId)
                         THEN Enqueue(enqueued, {clientId}, message)
                         ELSE enqueued
          /\ last' = [Quiet EXCEPT !.op = "sendToClient", !.client = clientId,
                                   !.broadcast = <<message>>]
    /\ UNCHANGED <<ipcClient, sockets, now, issued, polled>>
    /\ UNCHANGED daemonVars
    /\ UNCHANGED auxVars

\* time passes
Tick ==
    /\ now + TickMs <= MaxTime
    /\ now' = now + TickMs
    /\ last' = [Quiet EXCEPT !.op = "tick"]
    /\ UNCHANGED steps
    /\ UNCHANGED <<ipcClient, sockets, clients, issued, enqueued, polled>>
    /\ UNCHANGED daemonVars
    /\ UNCHANGED auxVars

\* generateAndWrite after a fullSnapshot reaches fs.writeFileSync
IndexWriteOpens ==
    /\ ~indexFile.writing
    /\ \E data \in Snapshots :
          LET ns == applyFullSnapshot(data)
              fw == writeTree([maps |-> <<>>, files |-> <<>>, dirs |-> {}], ns)
          IN  indexFile' = WriteOpens(indexFile, generateAndWrite(ns, fw.maps))
    /\ last' = [Quiet EXCEPT !.op = "indexOpen"]
    /\ UNCHANGED <<named, observed, deleteOrphansOnConnect, push, debounce, shutdown,
                   steps>>
    /\ UNCHANGED daemonVars
    /\ UNCHANGED transportVars

\* the operating system has written more of the document
IndexWriteAdvances ==
    /\ indexFile.writing
    /\ \E k \in (Len(indexFile.bytes) + 1)..Len(indexFile.target) :
          indexFile' = WriteAdvances(indexFile, k)
    /\ last' = [Quiet EXCEPT !.op = "indexWrite"]
    /\ UNCHANGED <<named, observed, deleteOrphansOnConnect, push, debounce, shutdown,
                   steps>>
    /\ UNCHANGED daemonVars
    /\ UNCHANGED transportVars

\* another process (the language server) reads the index file
IndexRead ==
    /\ observed' = indexFile.bytes
    /\ last' = [Quiet EXCEPT !.op = "indexRead"]
    /\ UNCHANGED <<named, indexFile, deleteOrphansOnConnect, push, debounce, shutdown,
                   steps>>
    /\ UNCHANGED daemonVars
    /\ UNCHANGED transportVars

\* a scriptChanged whose write meets a filesystem error
ScriptChangedFails ==
    /\ steps < MaxSteps
    /\ UNCHANGED transportVars
    /\ UNCHANGED auxVars
    /\ \E message \in ScriptMessages, fault \in {"mkdir", "write"} :
          /\ handleScriptChangedFailing(message, fault)
    /\ UNCHANGED dirty
    /\ steps' = steps + 1

\* a deleted for a script whose unlink meets a filesystem error
DeletedFails ==
    /\ steps < MaxSteps
    /\ UNCHANGED transportVars
    /\ UNCHANGED auxVars
    /\ \E guid \in DeletedGuids :
          /\ MapHas(fileMappings, guid)
          /\ MapGet(fileMappings, guid).filePath \in DOMAIN files
          /\ handleDeletedFailing(guid)
    /\ UNCHANGED dirty
    /\ steps' = steps + 1

\* an open WebSocket connection delivers data that is no well-formed message
WsMalformed ==
    /\ steps < MaxRequests
    /\ steps' = steps + 1
    /\ \E i \in 1..Len(sockets), payload \in WsPayloads :
          /\ sockets[i].state = "open"
          /\ LET r == onMessage(sockets, ipcClient, nodes, payload,
                                handleStudioMessage(nodes, payload))
             IN  /\ sockets' = r.sockets
                 /\ nodes' = r.nodes
                 /\ last' = [Quiet EXCEPT !.op = "wsMalformed", !.client = i,
                                          !.payload = payload]
    /\ UNCHANGED <<fileMappings, files, dirs, sourcemap, watcher, leaked, stopPending,
                   debounceTimers, suppressed, dirty>>
    /\ UNCHANGED <<ipcClient, clients, now, issued, enqueued, polled>>
    /\ UNCHANGED auxVars

\* POST /send with a body that holds no well-formed message
SendMalformed ==
    /\ steps < MaxRequests
    /\ steps' = steps + 1
    /\ \E payload \in SendPayloads :
          LET r == handleSend(nodes, payload, handleStudioMessage(nodes, payload))
          IN  /\ nodes' = r.nodes
              /\ last' = [Quiet EXCEPT !.op = "sendMalformed", !.payload = payload,
                                       !.response = r.response]
    /\ UNCHANGED <<fileMappings, files, dirs, sourcemap, watcher, leaked, stopPending,
                   debounceTimers, suppressed, dirty>>
    /\ UNCHANGED transportVars
    /\ UNCHANGED auxVars

\* a script file is classified, and the projector names the file of the
\* instance made of it
ClassifyFile ==
    /\ \E fileName \in FileNames, dir \in Directories :
          LET c == classifyScript(fileName)
          IN  named' = [fileName |-> fileName, dir |-> dir,
                        className |-> c.className, scriptName |-> c.scriptName,
                        encoded |-> getScriptFileName(TreeNode(LooseScript(dir, fileName)))]
    /\ last' = [Quiet EXCEPT !.op = "classify"]
    /\ UNCHANGED <<indexFile, observed, deleteOrphansOnConnect, push, debounce, shutdown,
                   steps>>
    /\ UNCHANGED daemonVars
    /\ UNCHANGED transportVars

Next ==
    \/ FullSnapshot
    \/ ScriptChanged
    \/ InstanceUpdated
    \/ Deleted
    \/ UserEdit
    \/ TimerFire
    \/ StopResumes

Spec == Init /\ [][Next]_vars

\* the daemon with orphan cleanup off or on
SpecConfigured == InitConfigured /\ [][Next]_vars

\* the daemon under instanceUpdated and deleted messages alone
NextUpdateDelete ==
    \/ InstanceUpdated
    \/ Deleted

SpecUpdateDelete == Init /\ [][NextUpdateDelete]_vars

\* the two transports: connections, polls, outbound patches and the clock
NextTransport ==
    \/ WsConnect
    \/ WsClose
    \/ PollConnect
    \/ Poll
    \/ PollDisconnect
    \/ PatchScript
    \/ SendToClient
    \/ Tick

SpecTransport == Init /\ [][NextTransport]_vars

\* the transports while time keeps passing
FairSpecTransport == SpecTransport /\ WF_vars(Tick)

\* what the steps of the push command leave alone
PushOnly ==
    /\ UNCHANGED <<named, indexFile, observed, deleteOrphansOnConnect, debounce,
                   shutdown, steps>>
    /\ UNCHANGED daemonVars
    /\ UNCHANGED transportVars

\* the command is started
PushRun ==
    /\ push.phase = "idle"
    /\ \E options \in PushOptions, projectFiles \in ProjectFiles, disk \in Disks :
          push' = run([push EXCEPT !.projectFiles = projectFiles, !.disk = disk,
                                   !.sources = Sources], options)
    /\ last' = [Quiet EXCEPT !.op = "pushRun"]
    /\ PushOnly

\* the snapshot mappings are built
PushBuilt ==
    /\ push.phase = "built"
    /\ push' = sendWhenConnected(push)
    /\ last' = [Quiet EXCEPT !.op = "pushBuilt"]
    /\ PushOnly

\* the editor connects
PushConnects ==
    /\ push.phase # "closed"
    /\ ~push.connected
    /\ push.requests < MaxConnections
    /\ push' = onPushConnection(push)
    /\ last' = [Quiet EXCEPT !.op = "pushConnects"]
    /\ PushOnly

\* the editor's connection ends
PushDisconnects ==
    /\ push.phase # "closed"
    /\ push.connected
    /\ push' = [push EXCEPT !.connected = FALSE]
    /\ last' = [Quiet EXCEPT !.op = "pushDisconnects"]
    /\ PushOnly

\* a message of the connected editor arrives after waitForPushConfig has
\* registered its handler
PushMessage ==
    /\ push.connected
    /\ push.timer # "unset"
    /\ push.phase # "closed"
    /\ \E message \in PushMessages :
          /\ push' = onPushMessage(push, message)
          /\ last' = [Quiet EXCEPT !.op = "pushMessage", !.message = message]
    /\ PushOnly

\* time passes, but not beyond the moment a timer is due
PushTick ==
    /\ push.phase \notin {"idle", "closed"}
    /\ push.elapsed < MaxPushMs
    /\ ~(push.timer = "armed" /\ push.elapsed >= WaitMs)
    /\ push' = [push EXCEPT !.elapsed = @ + PushTickMs]
    /\ last' = [Quiet EXCEPT !.op = "pushTick"]
    /\ PushOnly

\* the timer of waitForPushConfig fires
PushDeadline ==
    /\ push.timer = "armed"
    /\ push.elapsed >= WaitMs
    /\ push' = onTimeout(push)
    /\ last' = [Quiet EXCEPT !.op = "pushDeadline"]
    /\ PushOnly

\* 200 ms after the snapshot was sent the endpoint is closed
PushClose ==
    /\ push.phase = "sent"
    /\ push' = [push EXCEPT !.phase = "closed", !.connected = FALSE]
    /\ last' = [Quiet EXCEPT !.op = "pushClose"]
    /\ PushOnly

\* what the steps of the watcher under its clock leave alone
DebounceOnly ==
    /\ UNCHANGED <<named, indexFile, observed, deleteOrphansOnConnect, push,
                   shutdown, steps>>
    /\ UNCHANGED daemonVars
    /\ UNCHANGED transportVars

\* a file of the watched directory is written and chokidar emits "change"
WatchChange ==
    /\ \E p \in DOMAIN debounce.disk, body \in {"u", "v"} :
          /\ debounce.burst[p] < MaxBurst
          /\ debounce' = [debounce EXCEPT
                             !.disk[p] = body,
                             !.timers = handleFileChangeAt(@, p, debounce.now),
                             !.lastEvent[p] = debounce.now,
                             !.burst[p] = @ + 1]
          /\ last' = [Quiet EXCEPT !.op = "watchChange", !.path = p]
    /\ DebounceOnly

\* a file of the watched directory is removed; "unlink" has no listener
WatchUnlink ==
    /\ \E p \in DOMAIN debounce.disk :
          /\ debounce' = [debounce EXCEPT !.disk = Unlink(@, p)]
          /\ last' = [Quiet EXCEPT !.op = "watchUnlink", !.path = p]
    /\ DebounceOnly

\* time passes, up to the moment the next timer is due
WatchTick ==
    /\ debounce.now < MaxDebounceMs
    /\ \A p \in DOMAIN debounce.timers : debounce.timers[p] > debounce.now
    /\ LET due == {debounce.timers[p] : p \in DOMAIN debounce.timers}
                  \cup {debounce.now + DebounceTickMs}
       IN  debounce' = [debounce EXCEPT
                           !.now = CHOOSE t \in due : \A u \in due : t <= u]
    /\ last' = [Quiet EXCEPT !.op = "watchTick"]
    /\ DebounceOnly

\* the timer of a path is due and its callback runs
WatchFire ==
    /\ \E p \in DOMAIN debounce.timers :
          /\ debounce.timers[p] <= debounce.now
          /\ debounce' = [debounce EXCEPT !.timers = deleteTimer(@, p), !.burst[p] = 0]
          /\ last' = [Quiet EXCEPT !.op = "watchFire", !.path = p,
                                   !.count = debounce.burst[p],
                                   !.calls = processFileChange(debounce.disk, p)]
    /\ DebounceOnly

\* the naming functions on their own
NextNames == ClassifyFile

SpecNames == Init /\ [][NextNames]_vars

\* the index file between the daemon that writes it and a process that reads it
NextIndexFile ==
    \/ IndexWriteOpens
    \/ IndexWriteAdvances
    \/ IndexRead

SpecIndexFile == Init /\ [][NextIndexFile]_vars

\* the daemon and its transports under snapshots and malformed messages
NextMalformed ==
    \/ FullSnapshot
    \/ WsConnect
    \/ WsClose
    \/ PollConnect
    \/ WsMalformed
    \/ SendMalformed

SpecMalformed == Init /\ [][NextMalformed]_vars

\* the daemon on a filesystem that may refuse a write or an unlink
NextFaults ==
    \/ FullSnapshot
    \/ ScriptChanged
    \/ ScriptChangedFails
    \/ DeletedFails

SpecFaults == Init /\ [][NextFaults]_vars

\* the push command and the editor it pushes to
NextPush ==
    \/ PushRun
    \/ PushBuilt
    \/ PushConnects
    \/ PushDisconnects
    \/ PushMessage
    \/ PushTick
    \/ PushDeadline
    \/ PushClose

SpecPush == Init /\ [][NextPush]_vars

\* the watcher's debounce under a clock
NextDebounce ==
    \/ WatchChange
    \/ WatchUnlink
    \/ WatchTick
    \/ WatchFire

SpecDebounce == Init /\ [][NextDebounce]_vars

-----------------------------------------------------------------------------
(* Properties *)

EditorOps == {"fullSnapshot", "scriptChanged", "instanceUpdated", "deleted"}

\* no file-mapping entry names this path
Unmapped(filePath) == \A i \in 1..Len(fileMappings) : fileMappings[i].filePath # filePath

\* n is in the child map of the node its parent reference names
AttachedToParent(n) ==
    /\ n.parent # NoParent
    /\ MapHas(nodes, n.parent)
    /\ n.guid \in Range(MapGet(nodes, n.parent).children)

\* C1: every node that is attached to a parent has the logical path
\* parent.path ++ [name]; so after a rename or move the descendants' paths
\* start with the node's new path.
C1_PathIsParentPathPlusName ==
    \A i \in 1..Len(nodes) :
       AttachedToParent(nodes[i])
          => nodes[i].path = Append(MapGet(nodes, nodes[i].parent).path, nodes[i].name)

\* C2: after each editor message every script-class node has exactly one
\* file-mapping entry, the mapped file exists and holds the node's source,
\* the empty source included.
C2_EveryScriptIsProjected ==
    last.op \in EditorOps =>
       \A i \in 1..Len(nodes) :
          isScriptClass(nodes[i].className) =>
             /\ Cardinality({k \in 1..Len(fileMappings) :
                               fileMappings[k].guid = nodes[i].guid}) = 1
             /\ MapGet(fileMappings, nodes[i].guid).filePath \in DOMAIN files
             /\ files[MapGet(fileMappings, nodes[i].guid).filePath] = nodes[i].source

C4_UserEditIsPatched ==
    (last.op = "fire" /\ last.origins = {"user"} /\ last.path \in DOMAIN files
        /\ ~Unmapped(last.path))
       => /\ ~last.dropped
          /\ \E m \in Range(last.patch) : m.source = files[last.path]

C6_HintArmedForEveryWrite ==
    last.op \in {"fullSnapshot", "scriptChanged", "instanceUpdated"}
       => (last.unarmed = {} /\ last.armed = last.events)

\* C7: the watcher event of a file that no mapping entry names changes no
\* tree node, creates none and sends nothing on either transport.
C7_UnmappedFileIsIgnored ==
    [][(last'.op = "fire" /\ Unmapped(last'.path))
          => (nodes' = nodes /\ last'.patch = <<>> /\ last'.broadcast = <<>>)]_vars

\* C7 witness: the event of an unmapped file reached the daemon's handler
C7_Witness ==
    last.op = "fire" /\ last.delivered /\ Unmapped(last.path) /\ nodes # <<>>

\* C8: when instanceUpdated and deleted messages leave the tree without
\* nodes, no script file is left and the index has no children.
C8_EmptyTreeLeavesNothing ==
    (steps > 0 /\ MapKeys(nodes) \subseteq {RootGuid})
       => (DOMAIN files = {} /\ sourcemap.children = <<>>)

\* C9: an instanceUpdated that moves or renames a node writes once per
\* affected script, each below the node's new path, and leaves no file and
\* no directory at the scripts' old locations.
C9_MoveRewritesScripts ==
    (last.op = "instanceUpdated" /\ last.moved) =>
       /\ Len(last.writes) = Len(last.affected)
       /\ \A i \in 1..Len(last.writes) :
             IsPrefix(getFilePath([MapGet(nodes, last.guid) EXCEPT !.className = "Folder"]),
                      last.writes[i])
       /\ \A f \in last.oldFiles : f \notin DOMAIN files /\ Dirname(f) \notin dirs

\* the index entries found at a logical path, following entry names from the
\* children of the index root
RECURSIVE EntriesAt(_, _, _)
EntriesAt(kids, path, i) ==
    IF kids = <<>> THEN <<>>
    ELSE LET k == Head(kids)
             here == IF k.name # path[i] THEN <<>>
                     ELSE IF i = Len(path) THEN <<k>>
                     ELSE EntriesAt(k.children, path, i + 1)
         IN  here \o EntriesAt(Tail(kids), path, i)

\* the number of entries of an index subtree, its root included
RECURSIVE SubtreeSize(_)
RECURSIVE ForestSize(_)
SubtreeSize(entry) == 1 + ForestSize(entry.children)

ForestSize(kids) ==
    IF kids = <<>> THEN 0 ELSE SubtreeSize(Head(kids)) + ForestSize(Tail(kids))

\* C10: after an instanceUpdated that renames or moves a node the index has
\* no entry at the node's previous path and exactly one entry at its new
\* path, and that entry's subtree has one entry for each descendant of the
\* node.
C10_MovedNodeHasOneIndexEntry ==
    (last.op = "instanceUpdated" /\ last.moved) =>
       LET atOld == EntriesAt(sourcemap.children, last.path, 1)
           atNew == EntriesAt(sourcemap.children, MapGet(nodes, last.guid).path, 1)
       IN  /\ Len(atOld) = 0
           /\ Len(atNew) = 1
           /\ SubtreeSize(atNew[1]) = 1 + Cardinality(DescendantsOf(nodes, last.guid))

\* C11: after a deleted message for a known node, neither the node nor any
\* of its script descendants has a file-mapping entry or its mapped file on
\* disk, and the index has no entry at the node's former path.
C11_DeletedNodeLeavesNothing ==
    (last.op = "deleted" /\ last.path # <<>>) =>
       /\ \A g \in {last.guid} \cup Range(last.affected) : ~MapHas(fileMappings, g)
       /\ \A f \in last.oldFiles : f \notin DOMAIN files
       /\ Len(EntriesAt(sourcemap.children, last.path, 1)) = 0

\* C12: deleteInstance(id) on a known id leaves neither id nor any node
\* that was below id along child links in the store, takes id out of its
\* former parent's child map, leaves every other node as it was, and returns
\* the removed node.
C12_DeleteRemovesSubtree ==
    [][(last'.op = "deleted" /\ MapHas(nodes, last'.guid)) =>
         LET id == last'.guid
             gone == {id} \cup DescendantsOf(nodes, id)
             parent == MapGet(nodes, id).parent
         IN  /\ MapKeys(nodes') = MapKeys(nodes) \ gone
             /\ \A i \in 1..Len(nodes') : id \notin Range(nodes'[i].children)
             /\ \A i \in 1..Len(nodes') :
                   LET before == MapGet(nodes, nodes'[i].guid)
                   IN  nodes'[i] = IF before.guid = parent
                                   THEN [before EXCEPT !.children = KeysDelete(@, id)]
                                   ELSE before
             /\ deleteInstanceResult(nodes, id) = id]_vars

\* C12 witness: a node with a child below it was deleted and its parent stays
C12_Witness ==
    /\ last.op = "deleted"
    /\ Len(last.affected) > 1
    /\ \E i \in 1..Len(nodes) : nodes[i].guid \notin {RootGuid} /\ nodes[i].path = Front(last.path)

\* C13: every node of the store other than the synthetic root is reachable
\* from the synthetic root along child links and is in the child map of
\* exactly one node, and the synthetic root's path is the empty sequence.
C13_EveryNodeReachableFromRoot ==
    /\ \A i \in 1..Len(nodes) :
          nodes[i].guid # RootGuid =>
             /\ nodes[i].guid \in DescendantsOf(nodes, RootGuid)
             /\ Cardinality({j \in 1..Len(nodes) :
                               nodes[i].guid \in Range(nodes[j].children)}) = 1
    /\ MapHas(nodes, RootGuid) => MapGet(nodes, RootGuid).path = <<>>

\* the number of child maps that hold guid
ParentCount(guid) ==
    Cardinality({j \in 1..Len(nodes) : guid \in Range(nodes[j].children)})

\* the identifiers of the entries of the last fullSnapshot
EntryGuids == {last.entries[i].guid : i \in 1..Len(last.entries)}

\* C14: after applyFullSnapshot(entries) the store holds exactly
\* one node per identifier of entries plus the synthetic root, each of them
\* attached to exactly one parent, and no node from before that entries lacks.
C14_SnapshotReplacesForest ==
    last.op = "fullSnapshot" =>
       /\ MapKeys(nodes) = EntryGuids \cup {RootGuid}
       /\ \A i \in 1..Len(nodes) : Cardinality({k \in 1..Len(nodes) : nodes[k].guid = nodes[i].guid}) = 1
       /\ \A i \in 1..Len(nodes) :
             nodes[i].guid # RootGuid
                => (AttachedToParent(nodes[i]) /\ ParentCount(nodes[i].guid) = 1)

\* the entries of the last fullSnapshot that are no service and whose parent
\* path is the path of no entry
ParentlessEntries ==
    {e \in Range(last.entries) :
        Len(e.path) > 1 /\ \A i \in 1..Len(last.entries) : last.entries[i].path # Front(e.path)}

\* C15: after applyFullSnapshot(entries) an entry that is no service and
\* whose parent path equals no entry's path is dropped: it is not in the
\* store, no file is written and no mapping kept for it, and the index has
\* no entry at its path.
C15_ParentlessEntryIsDropped ==
    last.op = "fullSnapshot" =>
       \A e \in ParentlessEntries :
          /\ ~MapHas(nodes, e.guid)
          /\ e.guid \notin Range(Guids(getScriptNodes(nodes)))
          /\ ~MapHas(fileMappings, e.guid)
          /\ getFilePath(TreeNode(e)) \notin Range(last.writes)
          /\ Len(EntriesAt(sourcemap.children, e.path, 1)) = 0

\* C16: a node that updateInstance created or moved below a path no node has
\* stays in the store without a parent, and once a node with that path has
\* arrived through updateInstance every node whose parent path is the arrived
\* node's path is a child of a node with that path.
C16_OrphanIsAdoptedOnArrival ==
    (last.op = "instanceUpdated" /\ MapHas(nodes, last.guid)) =>
       LET arrived == MapGet(nodes, last.guid)
       IN  \A i \in 1..Len(nodes) :
              (nodes[i].guid # arrived.guid /\ nodes[i].path # <<>>
                 /\ Front(nodes[i].path) = arrived.path)
                 => /\ AttachedToParent(nodes[i])
                    /\ MapGet(nodes, nodes[i].parent).path = arrived.path

\* the WebSocket connections that are open
OpenSockets == {i \in 1..Len(sockets) : sockets[i].state = "open"}

\* C17: at any time at most one editor client is active, the open WebSocket
\* connections and the registered polling clients counted together: a second
\* connection closes or unregisters the first.
C17_AtMostOneActiveClient == Cardinality(OpenSockets) + Len(clients) <= 1

\* C18: the messages pushed to a registered polling client's queue are what
\* its polls have returned followed by what is still queued, in the order
\* they were pushed; a poll of a registered client returns the whole queue
\* and leaves it empty, without touching another client's queue; a poll
\* without a clientId or with an unknown one answers "Client not found" and
\* changes no queue.
C18_QueueDrainedInOrder ==
    [][/\ \A c \in MapKeys(clients') :
             polled'[c] \o MapGet(clients', c).messageQueue = enqueued'[c]
       /\ last'.op = "poll" =>
             IF last'.client # NoClient /\ MapHas(clients, last'.client)
             THEN /\ last'.response.status = 200
                  /\ last'.response.messages = MapGet(clients, last'.client).messageQueue
                  /\ MapGet(clients', last'.client).messageQueue = <<>>
                  /\ \A c \in MapKeys(clients) \ {last'.client} :
                        MapGet(clients', c) = MapGet(clients, c)
             ELSE /\ last'.response.error = "Client not found"
                  /\ clients' = clients]_vars

\* C18 witness: one poll returned two different messages
C18_Witness ==
    /\ last.op = "poll"
    /\ Len(last.response.messages) = 2
    /\ last.response.messages[1] # last.response.messages[2]
    /\ polled[last.client] = enqueued[last.client]

\* the registered polling clients whose last poll is older than the stale window
StaleClients ==
    {c \in MapKeys(clients) : now - MapGet(clients, c).lastPoll > staleTimeoutMs}

\* C19: a polling client that has not polled for longer than the stale
\* window is eventually removed by the daemon, together with its queue.
C19_StaleClientIsReaped ==
    \A c \in 1..MaxConnections : (c \in StaleClients) ~> ~MapHas(clients, c)

\* C20: a handler runs to completion in one step.  The tree update, the
\* projector writes and the index update of an editor message happen in the
\* step that handles it, and that step runs no watcher callback and sends no
\* patch; a watcher callback updates the tree and sends its patchScript in
\* one step, in which nothing is projected; what a handler leaves suspended
\* (a debounce timer, the stop of the watcher) touches neither the
\* projection nor the index when it resumes.
C20_HandlersRunToCompletion ==
    [][/\ (fileMappings' # fileMappings \/ dirs' # dirs \/ sourcemap' # sourcemap)
             => last'.op \in EditorOps
       /\ files' # files => last'.op \in EditorOps \cup {"userEdit"}
       /\ last'.op \in EditorOps
             => /\ last'.patch = <<>>
                /\ DOMAIN debounceTimers \subseteq DOMAIN debounceTimers'
                /\ suppressed \subseteq suppressed'
       /\ last'.patch # <<>>
             => /\ last'.op = "fire"
                /\ MapGet(nodes', last'.guid).source = last'.patch[1].source
                /\ last'.broadcast = last'.patch
       /\ nodes' # nodes
             => (last'.op \in EditorOps \/ (last'.op = "fire" /\ last'.patch # <<>>))]_vars

\* C20 witness: a watcher callback sent its patch after the watcher had been
\* restarted by a second snapshot and the suspended stop had resumed
C20_Witness ==
    /\ last.op = "fire"
    /\ last.patch # <<>>
    /\ leaked > 0
    /\ sourcemap.exists

\* C21: after each editor message the index file is what full generation
\* from the current tree and file mapping produces.
C21_IndexEqualsFullGeneration ==
    last.op \in EditorOps => sourcemap = generateAndWrite(nodes, fileMappings)

\* C22: encoding the class and name that classification returns for a
\* script file name yields the file name again, with .lua rewritten to .luau.
C22_EncodeInvertsClassify ==
    named.fileName # <<>> => named.encoded = Join(NormalizeExtension(named.fileName))

\* the suffix that encodes a script class in a file name
ClassSuffix(className) ==
    CASE className = "Script" -> ".server"
      [] className = "LocalScript" -> ".client"
      [] OTHER -> ""

\* the path of a script node's file: the sanitized segments of its parent
\* path, then <name><suffix>.luau, or <name>/init<suffix>.luau for a script
\* that has children
ExpectedFilePath(node) ==
    LET parent == [i \in 1..(Len(node.path) - 1) |-> sanitizeName(node.path[i])]
        suffix == ClassSuffix(node.className)
    IN  IF node.children # <<>>
        THEN parent \o <<sanitizeName(node.name), "init" \o suffix \o scriptExtension>>
        ELSE Append(parent, sanitizeName(node.name) \o suffix \o scriptExtension)

\* C23: after a fullSnapshot the file of every projected script node is at
\* the sanitized parent path followed by <name><class suffix>.luau, and a
\* script with children is written as init<suffix>.luau in the directory
\* named after it: S/P with a child S/P/Q gives S/P/init.luau and S/P/Q.luau.
C23_ScriptPathFollowsNamingRule ==
    last.op = "fullSnapshot" =>
       \A i \in 1..Len(nodes) :
          MapHas(fileMappings, nodes[i].guid)
             => MapGet(fileMappings, nodes[i].guid).filePath = ExpectedFilePath(nodes[i])

\* C24: a reader of the index file never finds a partly written document:
\* what it reads is the whole document from before the write in progress or
\* the whole document being written.
C24_ReaderSeesWholeIndex ==
    last.op = "indexRead" => observed \in {indexFile.previous, indexFile.target}

\* the file paths the file mapping names
MappedPaths(maps) == {maps[i].filePath : i \in 1..Len(maps)}

\* C25: with deleteOrphansOnConnect off a fullSnapshot deletes no file; with
\* it on, the files deleted are exactly those whose path the file mapping
\* does not name once the snapshot is written, and no mapped file is deleted.
C25_OrphanCleanupIsOptIn ==
    [][last'.op = "fullSnapshot" =>
         LET before == DOMAIN files
             deleted == before \ DOMAIN files'
         IN  /\ deleted = last'.removed
             /\ IF deleteOrphansOnConnect
                THEN /\ deleted = before \ MappedPaths(fileMappings')
                     /\ MappedPaths(fileMappings') \subseteq DOMAIN files'
                ELSE deleted = {}]_vars

\* C25 witness: a fullSnapshot with orphan cleanup on deleted a file and
\* kept another
C25_Witness ==
    /\ last.op = "fullSnapshot"
    /\ deleteOrphansOnConnect
    /\ last.removed # {}
    /\ DOMAIN files # {}

\* C26: a malformed inbound message is answered with exactly one error
\* reply (an error message to the sending WebSocket connection, an error
\* response to the /send request), changes neither the tree nor the file
\* mapping nor the index, and leaves the connection open.
C26_MalformedMessageIsRejected ==
    [][/\ last'.op = "wsMalformed" =>
             /\ sockets' = [sockets EXCEPT ![last'.client].received =
                               Append(@, [type |-> "error",
                                          message |-> "Invalid JSON message"])]
             /\ nodes' = nodes /\ fileMappings' = fileMappings /\ sourcemap' = sourcemap
       /\ last'.op = "sendMalformed" =>
             /\ last'.response.status = 400
             /\ last'.response.error # ""
             /\ clients' = clients
             /\ nodes' = nodes /\ fileMappings' = fileMappings /\ sourcemap' = sourcemap]_vars

\* the file-mapping entry of guid, <<>> when there is none
MappingOf(maps, guid) == IF MapHas(maps, guid) THEN <<MapGet(maps, guid)>> ELSE <<>>

\* C27: when a write or a delete of the projector fails with a filesystem
\* error while an editor message is handled, the error does not leave the
\* handler and the file-mapping entry of the identifier stays as it was.
C27_FilesystemErrorIsContained ==
    [][last'.op \in {"scriptChangedFailed", "deletedFailed"} =>
          /\ ~last'.escaped
          /\ MappingOf(fileMappings', last'.guid) = MappingOf(fileMappings, last'.guid)]_vars

\* directories with no file and no subdirectory in them
EmptyDirs(ds, fs) ==
    {d \in ds : /\ \A f \in DOMAIN fs : Dirname(f) # d
                /\ \A e \in ds : ~(Len(e) = Len(d) + 1 /\ IsPrefix(d, e))}

\* directories with no file anywhere below them
HollowDirs(ds, fs) == {d \in ds : \A f \in DOMAIN fs : ~IsPrefix(d, f)}

\* C30: after the empty-directory sweep returns, no empty directory remains
\* below the base directory, no file has been removed and no directory that
\* holds a file somewhere below it has been removed.  The base directory is
\* the empty path, which is never a member of the directory set and so cannot
\* be removed.  Stated of the sweep applied to every disk the daemon reaches.
C30_SweepLeavesNoEmptyDirectory ==
    LET fw == cleanupEmptyDirectories(Fw)
    IN  /\ EmptyDirs(fw.dirs, fw.files) = {}
        /\ fw.files = files
        /\ (dirs \ fw.dirs) \subseteq HollowDirs(dirs, files)

\* the worked example of manifest-driven push has been run and its snapshot sent
ExamplePushSent ==
    /\ push.options = ExampleOptions
    /\ push.projectFiles = <<ExampleManifest>>
    /\ push.disk = ExampleDisk
    /\ push.phase \in {"sent", "closed"}

\* C29: manifest-driven push places the manifest's nodes at the destination:
\* for the tree {ReplicatedStorage: {$className: ReplicatedStorage, Packages:
\* {$path: Packages}}}, the file Packages/Util.lua and the command line
\* push -d ReplicatedStorage.Packages --rojo, exactly one pushSnapshot is sent,
\* it has exactly one mapping, the mapping's destination is
\* [ReplicatedStorage, Packages] and its instances include a ModuleScript Util
\* at the path [ReplicatedStorage, Packages, Util].
C29_ManifestPushPlacesNodesAtDestination ==
    ExamplePushSent =>
        /\ Len(push.sent) = 1
        /\ push.sent[1].type = "pushSnapshot"
        /\ Len(push.sent[1].mappings) = 1
        /\ push.sent[1].mappings[1].destination = <<"ReplicatedStorage", "Packages">>
        /\ \E i \in 1..Len(push.sent[1].mappings[1].instances) :
              LET instance == push.sent[1].mappings[1].instances[i]
              IN  /\ instance.className = "ModuleScript"
                  /\ instance.name = "Util"
                  /\ instance.path = <<"ReplicatedStorage", "Packages", "Util">>

\* the command line gives a whole mapping: a source and a destination with
\* at least one segment
HasCliMapping(options) ==
    /\ ~options.rojoMode
    /\ options.source # ""
    /\ parseDestination(options.destination) # <<>>

CliMapping(options) ==
    [source |-> options.source, destination |-> parseDestination(options.destination),
     destructive |-> options.destructive, rojoMode |-> FALSE]

\* C28: the push command's wait for the editor's push config resolves exactly
\* once: with the config when a pushConfig message arrives before the timer of
\* 8 s has fired, otherwise with "no config" when the timer fires, which is not
\* before 8 s have passed; once resolved the outcome never changes, and a
\* pushConfig that arrives after the deadline changes nothing at all.  After a
\* timeout no pushSnapshot is sent; a command that was given a mapping on the
\* command line proceeds with that mapping and never waits.
C28_PushConfigWaitResolvesOnce ==
    [][/\ push'.resolutions <= 1
       /\ push.resolved => push'.resolved /\ push'.resolution = push.resolution
       /\ (/\ last'.op = "pushMessage"
           /\ last'.message.type = "pushConfig"
           /\ push.timer = "armed")
             => push'.resolved /\ push'.resolution = last'.message.config
       /\ last'.op = "pushDeadline"
             => push.elapsed >= WaitMs /\ push'.resolved /\ push'.resolution = NoConfig
       /\ (last'.op = "pushMessage" /\ push.timer = "fired") => push' = push
       /\ push'.resolution = NoConfig => push'.sent = <<>> /\ push'.phase = "done"
       /\ (push'.phase # "idle" /\ HasCliMapping(push'.options))
             => /\ push'.timer = "unset"
                /\ push'.mappings = <<CliMapping(push'.options)>>
                /\ \A i \in 1..Len(push'.sent) :
                      /\ Len(push'.sent[i].mappings) = 1
                      /\ push'.sent[i].mappings[1].destination
                            = CliMapping(push'.options).destination]_vars

\* a pushConfig has arrived after the wait had timed out
C28_Witness ==
    /\ last.op = "pushMessage"
    /\ last.message.type = "pushConfig"
    /\ last.message.config.mappings # <<>>
    /\ push.timer = "fired"
    /\ push.resolution = NoConfig
    /\ push.resolutions = 1
    /\ push.elapsed > WaitMs

\* the logical paths and class names a prune is called with; NoGuid is no
\* className
PrunePaths == {<<"S">>, <<"S", "P">>, <<"S", "P", "Q">>, <<"S", "R?">>}

PruneClasses == {NoGuid, "Folder", "ModuleScript", "Script"}

\* the entries among which the prune looks for the terminal segment of
\* pathSegments: the children of the first entry of each name on the way
RECURSIVE TerminalLevel(_, _, _)
TerminalLevel(entries, pathSegments, idx) ==
    IF idx = Len(pathSegments) THEN [reached |-> TRUE, entries |-> entries]
    ELSE LET k == FindIndex({j \in 1..Len(entries) : entries[j].name = pathSegments[idx]})
         IN  IF k = 0 \/ ~entries[k].hasChildren
             THEN [reached |-> FALSE, entries |-> <<>>]
             ELSE TerminalLevel(entries[k].children, pathSegments, idx + 1)

\* the entries of the terminal level the prune may remove
PruneMatches(level, name, className) ==
    {j \in 1..Len(level) : /\ level[j].name = name
                           /\ className # NoGuid => level[j].className = className}

\* C31: an incremental prune with a className removes at the terminal path
\* segment only an entry whose name and class both match; if no entry of that
\* level matches both, nothing is removed and the prune reports a miss; without
\* a className the terminal entry is matched by name only.  Stated of
\* removePath applied to every index the daemon reaches.
C31_PruneMatchesNameAndClass ==
    sourcemap.exists =>
       \A pathSegments \in PrunePaths, className \in PruneClasses :
          LET level == TerminalLevel(sourcemap.children, pathSegments, 1)
              matches == IF level.reached
                         THEN PruneMatches(level.entries, Last(pathSegments), className)
                         ELSE {}
              r == removePath(sourcemap.children, pathSegments, className)
              after == TerminalLevel(r.nodes, pathSegments, 1)
          IN  IF matches = {}
              THEN ~r.removed /\ r.nodes = sourcemap.children
              ELSE /\ r.removed
                   /\ after.reached =>
                         after.entries = Without(level.entries, FindIndex(matches))

\* after is before with one entry on pathSegments pruned: at the terminal
\* segment one entry of that name is taken out with its subtree; above it the
\* entry on the path is taken out when the prune leaves it childless and it
\* carries no filePaths, and otherwise differs only in its children; every
\* other entry of every level on the way is the same
RECURSIVE PrunedAs(_, _, _, _)
PrunedAs(before, after, pathSegments, idx) ==
    \E k \in 1..Len(before) :
       /\ before[k].name = pathSegments[idx]
       /\ IF idx = Len(pathSegments) THEN after = Without(before, k)
          ELSE \/ /\ after = Without(before, k)
                  /\ before[k].filePaths = <<>>
                  /\ PrunedAs(before[k].children, <<>>, pathSegments, idx + 1)
               \/ /\ Len(after) = Len(before)
                  /\ \A j \in 1..Len(before) : j # k => after[j] = before[j]
                  /\ after[k] = [before[k] EXCEPT !.children = after[k].children]
                  /\ after[k].children # <<>> \/ before[k].filePaths # <<>>
                  /\ PrunedAs(before[k].children, after[k].children, pathSegments, idx + 1)

\* C32: after a successful incremental prune of path p the subtree at p is
\* gone, every ancestor entry on p that has become childless and carries no
\* filePaths is removed as well, ancestors that still have children or carry
\* filePaths are kept, and every entry that is not on p is unchanged.  Stated
\* of removePath applied to every index the daemon reaches.
C32_PruneRemovesSubtreeAndEmptyAncestors ==
    sourcemap.exists =>
       \A pathSegments \in PrunePaths, className \in PruneClasses :
          LET r == removePath(sourcemap.children, pathSegments, className)
          IN  r.removed =>
                 /\ EntriesAt(r.nodes, pathSegments, 1) = <<>>
                 /\ PrunedAs(sourcemap.children, r.nodes, pathSegments, 1)

\* pairs of nodes of one parent that share their name and logical path
SameNameSiblings ==
    {pair \in (1..Len(nodes)) \X (1..Len(nodes)) :
        /\ pair[1] < pair[2]
        /\ nodes[pair[1]].parent # NoParent
        /\ nodes[pair[1]].parent = nodes[pair[2]].parent
        /\ nodes[pair[1]].name = nodes[pair[2]].name
        /\ nodes[pair[1]].path = nodes[pair[2]].path
        /\ MapHas(nodes, nodes[pair[1]].parent)
        /\ nodes[pair[1]].path = Append(MapGet(nodes, nodes[pair[1]].parent).path,
                                        nodes[pair[1]].name)}

\* C33: two sibling nodes that share a logical name remain two distinct nodes
\* distinguished by identifier: both are in the store as children of their
\* parent, and the full index generation emits a separate entry for each of
\* them, so the generated index has at least two entries at their path.
C33_SameNameSiblingsStayDistinct ==
    \A pair \in SameNameSiblings :
       /\ nodes[pair[1]].guid # nodes[pair[2]].guid
       /\ AttachedToParent(nodes[pair[1]])
       /\ AttachedToParent(nodes[pair[2]])
       /\ Len(EntriesAt(generate(nodes, fileMappings), nodes[pair[1]].path, 1)) >= 2

\* the watched files whose names end in .lua or .luau
LuaPaths == {<<"S", "P", "init.luau">>, <<"S", "Q.lua">>}

\* C34: for each path a burst of change events, each less than the debounce
\* window after the one before, yields exactly one callback run: every event
\* leaves one pending timer for its path, due one window after that event; the
\* timer fires one window after the last event of the burst and ends the burst;
\* the change handler is called then and only then, once, with the body the
\* file has at that moment, provided the path ends in .lua or .luau and the
\* file can be read; an event of one path leaves the timers of the other paths
\* as they are.
C34_BurstYieldsOneCallback ==
    [][/\ \A p \in WatchedPaths :
             /\ debounce'.burst[p] > 0 <=> p \in DOMAIN debounce'.timers
             /\ p \in DOMAIN debounce'.timers
                   => debounce'.timers[p] = debounce'.lastEvent[p] + fileWatchDebounce
       /\ last'.op = "watchChange"
             => \A q \in DOMAIN debounce.timers :
                   q # last'.path
                      => q \in DOMAIN debounce'.timers
                         /\ debounce'.timers[q] = debounce.timers[q]
       /\ last'.op = "watchFire"
             => /\ last'.count >= 1
                /\ debounce.now = debounce.lastEvent[last'.path] + fileWatchDebounce
                /\ last'.path \notin DOMAIN debounce'.timers
                /\ last'.calls =
                      IF last'.path \in LuaPaths /\ last'.path \in DOMAIN debounce.disk
                      THEN <<[filePath |-> last'.path,
                              source |-> debounce.disk[last'.path]]>>
                      ELSE <<>>
       /\ last'.calls # <<>> => last'.op = "watchFire"]_vars

\* a burst of two events on a script has fired once, with the body of the
\* second event, while the timer of another path is pending
C34_Witness ==
    /\ last.op = "watchFire"
    /\ last.count = 2
    /\ last.calls # <<>>
    /\ last.calls[1].source \in {"u", "v"}
    /\ \E q \in DOMAIN debounce.timers : q # last.path

\* the positions of a mapping's instances that repeat the logical path of an
\* earlier instance
EmittedTwice(instances) ==
    {j \in 1..Len(instances) :
        \E i \in 1..(j - 1) : instances[i].path = instances[j].path}

\* C35: in a manifest-driven build no logical path is emitted more than once:
\* in every snapshot a manifest-driven push has sent, no two instances of a
\* mapping have the same path.
C35_ManifestBuildEmitsEachPathOnce ==
    push.options.rojoMode =>
        \A k \in 1..Len(push.sent) :
            push.sent[k].type = "pushSnapshot" =>
                \A m \in 1..Len(push.sent[k].mappings) :
                    EmittedTwice(push.sent[k].mappings[m].instances) = {}

-----------------------------------------------------------------------------
(* SyncDaemon.stop *)

\* a chokidar watcher still emits events: the one the FileWatcher references,
\* unless stop() has called its close(), or one it no longer references
EmittingAt(sd) == (watcher /\ ~sd.closing) \/ leaked > 0

\* what the steps of the daemon that is being stopped leave alone
StopOnly ==
    UNCHANGED <<named, indexFile, observed, deleteOrphansOnConnect, push, debounce>>

\* a fullSnapshot message, also one that arrives while stop() is suspended;
\* watch() then references a new watcher
StopSnapshot ==
    /\ shutdown.phase # "stopped"
    /\ steps < MaxSteps
    /\ \E data \in Snapshots : handleFullSnapshot(data)
    /\ Undirty
    /\ steps' = steps + 1
    /\ shutdown' = [shutdown EXCEPT !.closing = FALSE]
    /\ UNCHANGED transportVars
    /\ StopOnly

\* the user saves a file and a watcher that still runs reports it
StopUserEdit ==
    /\ EmittingAt(shutdown)
    /\ UserEdit

\* a stop() that watch() called resumes after its await
WatchStopResumes ==
    /\ stopPending > 0
    /\ stopPending' = stopPending - 1
    /\ watcher' = FALSE
    /\ leaked' = IF watcher /\ ~shutdown.closing THEN leaked + 1 ELSE leaked
    /\ debounceTimers' = <<>>
    /\ shutdown' = [shutdown EXCEPT !.closing = FALSE]
    /\ last' = [Quiet EXCEPT !.op = "stopResumed"]
    /\ UNCHANGED <<nodes, fileMappings, files, dirs, sourcemap, suppressed, dirty, steps>>
    /\ UNCHANGED transportVars
    /\ StopOnly

\* a client connects while the endpoint accepts connections
StopWsConnect ==
    /\ shutdown.phase # "stopped"
    /\ WsConnect

\* SyncDaemon.stop() is called: without a watcher FileWatcher.stop() clears the
\* timers and the endpoint is closed at once; with one it is suspended at
\* "await this.watcher.close()"
DaemonStop ==
    /\ shutdown.phase = "running"
    /\ IF watcher
       THEN /\ shutdown' = [phase |-> "stopping", closing |-> TRUE]
            /\ last' = [Quiet EXCEPT !.op = "daemonStop"]
            /\ UNCHANGED <<debounceTimers, sockets>>
       ELSE /\ shutdown' = [phase |-> "stopped", closing |-> FALSE]
            /\ debounceTimers' = <<>>
            /\ sockets' = close(sockets, ipcClient)
            /\ last' = [Quiet EXCEPT !.op = "daemonStopped"]
    /\ UNCHANGED <<nodes, fileMappings, files, dirs, sourcemap, watcher, leaked,
                   stopPending, suppressed, dirty, steps>>
    /\ UNCHANGED <<ipcClient, clients, now, issued, enqueued, polled>>
    /\ StopOnly

\* the suspended stop() resumes: FileWatcher.stop() drops its reference and
\* clears the timers, then ipc.close() and httpServer.close()
DaemonStopResumes ==
    /\ shutdown.phase = "stopping"
    /\ shutdown' = [phase |-> "stopped", closing |-> FALSE]
    /\ watcher' = FALSE
    /\ leaked' = IF watcher /\ ~shutdown.closing THEN leaked + 1 ELSE leaked
    /\ debounceTimers' = <<>>
    /\ sockets' = close(sockets, ipcClient)
    /\ last' = [Quiet EXCEPT !.op = "daemonStopped"]
    /\ UNCHANGED <<nodes, fileMappings, files, dirs, sourcemap, stopPending,
                   suppressed, dirty, steps>>
    /\ UNCHANGED <<ipcClient, clients, now, issued, enqueued, polled>>
    /\ StopOnly

NextStop ==
    \/ StopSnapshot
    \/ StopUserEdit
    \/ TimerFire
    \/ WatchStopResumes
    \/ StopWsConnect
    \/ WsClose
    \/ DaemonStop
    \/ DaemonStopResumes

\* the daemon from its start to after its stop
SpecStop == Init /\ [][NextStop]_vars

\* C36: after the daemon's stop() has completed no watcher callback runs and
\* no patchScript is sent: no change event is handled and no debounce timer
\* fires; when stop() completes no debounce timer is pending, no watcher is
\* active and no connection of the endpoint is open.
C36_StoppedDaemonIsSilent ==
    [][/\ shutdown.phase = "stopped" =>
             /\ last'.op \notin {"userEdit", "fire"}
             /\ sockets' = sockets \/ last'.op = "wsClose"
             /\ enqueued' = enqueued
       /\ last'.op = "daemonStopped" =>
             /\ debounceTimers' = <<>>
             /\ ~watcher'
             /\ leaked' = 0
             /\ \A i \in 1..Len(sockets') : sockets'[i].state # "open"]_vars

\* C37: when a second streaming connection has replaced the first, the
\* endpoint's client is the newest connection for as long as that connection
\* is open, also after the close event of a replaced connection, and every
\* patch the daemon sends is delivered to it.
C37_ReplacingClientStaysActive ==
    [][LET newest == Len(sockets')
       IN  (newest >= 2 /\ sockets'[newest].state = "open") =>
              /\ ipcClient' = newest
              /\ last'.op = "patchScript" =>
                    sockets'[newest].received = sockets[newest].received \o last'.patch]_vars

\* C38: once a fullSnapshot has started the watcher, exactly one chokidar
\* watcher is active and the FileWatcher references it, also after a stop()
\* that was pending when a later snapshot arrived has resumed.
C38_ExactlyOneActiveWatcher ==
    (watcher \/ leaked > 0 \/ stopPending > 0) => (watcher /\ leaked = 0)

-----------------------------------------------------------------------------
(* TreeManager on its own *)

\* updateInstance: the entries of instanceUpdated, a move of P below its own
\* child Q, and a move of Q below a parent that does not exist
TreeEntries ==
    UpdateEntries
        \cup {Instance("p", "ModuleScript", <<"S", "P", "Q", "P">>, "x"),
              Instance("q", "ModuleScript", <<"X", "Q">>, "y")}

\* what the operations of the store leave alone
TreeOnly ==
    /\ UNCHANGED <<fileMappings, files, dirs, sourcemap, watcher, leaked,
                   stopPending, debounceTimers, suppressed, dirty>>
    /\ UNCHANGED transportVars
    /\ UNCHANGED auxVars

TreeSnapshot ==
    /\ steps < MaxSteps
    /\ steps' = steps + 1
    /\ \E instances \in Snapshots :
          /\ nodes' = applyFullSnapshot(instances)
          /\ last' = [Quiet EXCEPT !.op = "applyFullSnapshot", !.entries = instances]
    /\ TreeOnly

TreeUpdate ==
    /\ steps < MaxSteps
    /\ steps' = steps + 1
    /\ \E instance \in TreeEntries :
          /\ nodes' = updateInstance(nodes, instance)
          /\ last' = [Quiet EXCEPT !.op = "updateInstance", !.guid = instance.guid,
                                   !.path = instance.path]
    /\ TreeOnly

TreeDelete ==
    /\ steps < MaxSteps
    /\ steps' = steps + 1
    /\ \E guid \in DeletedGuids :
          /\ nodes' = deleteInstance(nodes, guid)
          /\ last' = [Quiet EXCEPT !.op = "deleteInstance", !.guid = guid]
    /\ TreeOnly

NextTree ==
    \/ TreeSnapshot
    \/ TreeUpdate
    \/ TreeDelete

SpecTree == Init /\ [][NextTree]_vars

\* the nodes reached from guid by following parent references, at most fuel times
RECURSIVE AncestorsOf(_, _, _)
AncestorsOf(ns, guid, fuel) ==
    IF fuel = 0 \/ ~MapHas(ns, guid) THEN {}
    ELSE LET parent == MapGet(ns, guid).parent
         IN  IF parent = NoParent THEN {}
             ELSE {parent} \cup AncestorsOf(ns, parent, fuel - 1)

\* C39: after any sequence of applyFullSnapshot, updateInstance and
\* deleteInstance the parent references and the child maps describe the same
\* acyclic forest: a node is in the child map of p exactly when its parent
\* reference is p, no node is in two child maps, and no node is its own
\* ancestor.
C39_ParentsAndChildrenAgree ==
    \A i \in 1..Len(nodes) :
       LET n == nodes[i]
       IN  /\ \A j \in 1..Len(nodes) :
                 n.guid \in Range(nodes[j].children) <=> n.parent = nodes[j].guid
           /\ Cardinality({j \in 1..Len(nodes) : n.guid \in Range(nodes[j].children)}) <= 1
           /\ n.guid \notin AncestorsOf(nodes, n.guid, Len(nodes))

\* C40: the file mapping is injective: no two script identifiers are mapped
\* to the same file path.
C40_FileMappingIsInjective ==
    \A i, j \in 1..Len(fileMappings) :
       fileMappings[i].filePath = fileMappings[j].filePath => i = j

====
